---- MODULE Spec2Model ----
(***************************************************************************)
(* TOC user-management API: the authorization resolver (authenticate,     *)
(* hasPermission, authenticateRefreshToken), the credential store (Token  *)
(* collection) and the handlers that read or write them.                   *)
(*                                                                         *)
(* Every HTTP request is a process held in a request slot.  A step of a    *)
(* request is the database operation awaited at one `await` of the source  *)
(* together with the synchronous code that follows it up to the next       *)
(* `await` (Node runs that code without interleaving).  Documents are      *)
(* records, collections are sets of records, and a query result (or a      *)
(* local variable holding a document) is a set with at most one element,   *)
(* the empty set standing for null.                                        *)
(*                                                                         *)
(* Time is counted in hours.  Document.prototype.delete() of the token     *)
(* documents is taken to remove the document, as the handlers intend.      *)
(* Fields that no modelled handler reads (displayName, lastLoginAt,        *)
(* customData, ...) are left out of the documents.  The inputs drawn are   *)
(* bodies that pass validateRequest.                                       *)
(*                                                                         *)
(* auditLogger replaces res.json by a function that awaits                 *)
(* AuditLog.logAction before it sends the response; the function is read   *)
(* as an async function (as written it is not, and `await` inside it does  *)
(* not parse).  An audit event records which keys its params, body and     *)
(* response hold, not their values.  The middleware writes the AuditLog    *)
(* collection only, which no other handler reads: the specifications of    *)
(* the audit trail (SpecAudit, SpecAuditFault) run the routes with it, the *)
(* others without.                                                         *)
(*                                                                         *)
(* hasPermission and the synchronous head of a handler run in the step of  *)
(* authenticate that calls next(); a slot that has been answered keeps the *)
(* req.* fields of its request until the next request takes the slot.      *)
(* The field pre of a slot records the refresh token values stored when    *)
(* its request arrived; no handler reads it.                               *)
(***************************************************************************)
EXTENDS Integers, FiniteSets, Sequences, TLC

\* ------------------------------------------------------------------ bounds
MaxTokens == 6
MaxTicks == 1
MaxStarted == 3
MaxRoles == 3

\* ------------------------------------------------------- program constants
VerificationHours == 24
ResetHours == 1
RefreshDays == 7
JwtHours == 1
RetentionDays == 30

\* ---------------------------------------------------------------- universe
Null == "null"
Reqs == {"q1", "q2"}
UserIds == {"u1", "u2"}
ServiceIds == {"s1"}
Passwords == {"Passw0rd1", "Passw0rd2"}
ADMIN_USERNAME == "admin"
Usernames == {ADMIN_USERNAME, "alice"}
Statuses == {"pending", "active", "suspended"}
GrantStatuses == {"active", "suspended"}
\* the values crypto.randomBytes gives to API keys and secrets, in the order
\* they are drawn
Secrets == 1..(MaxStarted + 1)
\* the keys of the custom data a tenant keeps in a grant
CustomKeys == {"plan", "quota"}
RoleNames == {"admin", "user", "editor"}
DefaultAdminPermissions ==
  {"user:read", "user:write", "user:delete", "role:read", "role:write",
   "service:read", "service:write"}
DefaultUserPermissions == {"user:read"}
TickSteps == {JwtHours, 24 * RetentionDays}
\* the _id values of the users that registerUser creates, in order of creation
NewUserIds == <<"u3", "u4", "u5", "u6", "u7">>

VARIABLES
  users,      \* User collection
  services,   \* Service collection
  roles,      \* Role collection
  grants,     \* UserService collection
  tokens,     \* Token collection (refresh, verification, password_reset)
  jwts,       \* access tokens handed out in responses
  req,        \* request slots: route, position, inputs, req.* fields, locals
  now,        \* the clock, in hours
  ticks,      \* number of clock advances so far
  nextTok,    \* next unused random token value
  nextRole,   \* next unused role _id
  started,    \* number of requests received so far
  audit,      \* AuditLog collection, in the order of insertion
  nextUser,   \* number of the next unused user _id
  nextGrant   \* next unused UserService _id

vars == <<users, services, roles, grants, tokens, jwts, req, now, ticks,
          nextTok, nextRole, started, audit, nextUser, nextGrant>>

\* ----------------------------------------------------------------- helpers
\* bcrypt.hash / bcrypt.compare of the User pre-save hook and comparePassword
Hash(p) == <<"bcrypt", p>>
comparePassword(candidate, hash) == Hash(candidate) = hash

\* tokenSchema.methods.isExpired
isExpired(t) == t.expiresAt < now

\* jwt.sign of generateToken: payload and expiry
generateToken(userId, serviceId) ==
  [id |-> userId, serviceId |-> serviceId, exp |-> now + JwtHours, signed |-> TRUE]

\* jwt.verify: signature and expiry
jwtVerify(t) == t.signed /\ now < t.exp

\* a bearer value that is no token signed by this server
BadJwt == [id |-> Null, serviceId |-> Null, exp |-> 0, signed |-> FALSE]

\* Model.findById / findOne on a collection: a set with at most one document
findById(coll, id) == {d \in coll : d._id = id}

\* ------------------------------------------------------------ initial state
\* Role.createDefaultRoles
AdminRole ==
  [_id |-> 1, name |-> "admin", isGlobal |-> TRUE, serviceId |-> Null,
   permissions |-> DefaultAdminPermissions]
UserRole ==
  [_id |-> 2, name |-> "user", isGlobal |-> TRUE, serviceId |-> Null,
   permissions |-> DefaultUserPermissions]

\* scripts/create-admin.js: the administrator and its global grant
AdminUser ==
  [_id |-> "u1", username |-> ADMIN_USERNAME, email |-> "admin@toc",
   password |-> Hash("Passw0rd1"), status |-> "active", isEmailVerified |-> TRUE]
AdminGrant ==
  [_id |-> 1, userId |-> "u1", serviceId |-> Null, roles |-> {1}, status |-> "active",
   customData |-> {}]

\* registerUser: a registered user, its global grant with the default role
RegisteredUser(st) ==
  [_id |-> "u2", username |-> "alice", email |-> "alice@toc",
   password |-> Hash("Passw0rd2"), status |-> st, isEmailVerified |-> (st # "pending")]
RegisteredGrant ==
  [_id |-> 2, userId |-> "u2", serviceId |-> Null, roles |-> {2}, status |-> "active",
   customData |-> {}]

\* assignUserToService with the schema defaults (roles [], status active)
TenantGrant(id, u) ==
  [_id |-> id, userId |-> u, serviceId |-> "s1", roles |-> {}, status |-> "active",
   customData |-> {}]

\* Token.generateRefreshToken / generateVerificationToken / generatePasswordResetToken
newToken(value, userId, type, serviceId) ==
  [_id |-> value, token |-> value, userId |-> userId, type |-> type,
   expiresAt |-> now + (CASE type = "verification" -> VerificationHours
                          [] type = "password_reset" -> ResetHours
                          [] OTHER -> 24 * RefreshDays),
   serviceId |-> serviceId, createdAt |-> now]

IdleReq ==
  [op |-> "idle", pc |-> "idle", bearer |-> BadJwt, arg |-> <<>>,
   user |-> Null, service |-> Null, hasRoles |-> FALSE, userRoles |-> {},
   tokenDoc |-> {}, userDoc |-> {}, grantDoc |-> {}, roleDoc |-> {}, ids |-> {},
   out |-> {}, status |-> 0, pre |-> {}, action |-> Null, data |-> {}]

\* createRole: a role of service s1, and a role that is neither global nor
\* of a service (isGlobal false, no serviceId in the body)
EditorRole ==
  [_id |-> 3, name |-> "editor", isGlobal |-> FALSE, serviceId |-> "s1",
   permissions |-> {"user:read"}]
LooseRole ==
  [_id |-> 4, name |-> "editor", isGlobal |-> FALSE, serviceId |-> Null,
   permissions |-> {"user:read"}]

\* The database after seeding and alice's registration, at hour 0:
\*   st        alice's status (pending: her verification token, value 1, is
\*             outstanding)
\*   assigned  the users that have been assigned to service s1
\*   sessions  the logins <<user, service>> that have completed, in order;
\*             the i-th left refresh token i + 1 and an access token
\*   created   the roles that have been created, with _id 3, 4, ...
\*   listed    the roles the assignments to s1 listed
InitDb(st, assigned, sessions, created, listed) ==
  /\ now = 0
  /\ ticks = 0
  /\ started = 0
  /\ nextRole = 3 + Cardinality(created)
  /\ nextUser = 1
  /\ nextGrant = 5
  /\ audit = <<>>
  /\ nextTok = Len(sessions) + 2
  /\ services = {[_id |-> "s1", active |-> TRUE, apiKey |-> 1, apiSecret |-> 1]}
  /\ roles = {AdminRole, UserRole} \cup created
  /\ users = {AdminUser, RegisteredUser(st)}
  /\ grants = {AdminGrant, RegisteredGrant}
               \cup {[TenantGrant(IF u = "u1" THEN 3 ELSE 4, u) EXCEPT !.roles = listed] :
                       u \in assigned}
  /\ tokens = {newToken(i + 1, sessions[i][1], "refresh", sessions[i][2]) :
                 i \in 1..Len(sessions)}
               \cup (IF st = "pending"
                     THEN {newToken(1, "u2", "verification", Null)} ELSE {})
  /\ jwts = {generateToken(sessions[i][1], sessions[i][2]) : i \in 1..Len(sessions)}
  /\ req = [r \in Reqs |-> IdleReq]

\* the database when the assignments listed no roles
InitRoles(st, assigned, sessions, created) == InitDb(st, assigned, sessions, created, {})

\* the database when no role has been created yet
InitWith(st, assigned, sessions) == InitRoles(st, assigned, sessions, {})

\* ------------------------------------------------------------------ routing
\* routes/user.routes.js, role.routes.js, userService.routes.js,
\* service.routes.js, auditLog.routes.js: routes behind router.use(authenticate)
JwtRoutes ==
  {"changePassword", "logoutUser", "getUsers", "getAuditLogs", "updateUser",
   "deleteUser", "createRole", "updateUserService", "removeUserFromService",
   "updateService", "assignUserToService", "updateRole", "deleteRole",
   "deleteService", "regenerateCredentials", "updateCustomData"}

\* the hasPermission(...) gate of a route ("" when the route has none)
Permission(op) ==
  CASE op = "getUsers" -> "user:read"
    [] op = "getAuditLogs" -> "audit:read"
    [] op = "updateUser" -> "user:write"
    [] op = "deleteUser" -> "user:delete"
    [] op = "createRole" -> "role:write"
    [] op = "updateUserService" -> "user:write"
    [] op = "removeUserFromService" -> "user:write"
    [] op = "updateService" -> "service:write"
    [] op = "assignUserToService" -> "user:write"
    [] op = "updateRole" -> "role:write"
    [] op = "deleteRole" -> "role:delete"
    [] op = "deleteService" -> "service:delete"
    [] op = "regenerateCredentials" -> "service:write"
    [] OTHER -> ""

\* first step of the handler of a route
Handler(op) ==
  CASE op = "loginUser" -> "login_user"
    [] op = "registerUser" -> "rg_find"
    [] op = "refreshToken" -> "rt_find"
    [] op = "verifyEmail" -> "ve_find"
    [] op = "forgotPassword" -> "fp_user"
    [] op = "resetPassword" -> "rp_find"
    [] op = "changePassword" -> "cp_user"
    [] op = "logoutUser" -> "lo_delete"
    [] op = "getUsers" -> "read"
    [] op = "getAuditLogs" -> "read"
    [] op = "updateUser" -> "uu_find"
    [] op = "deleteUser" -> "du_find"
    [] op = "createRole" -> "cr_find"
    [] op = "updateUserService" -> "us_find"
    [] op = "removeUserFromService" -> "rm_find"
    [] op = "updateService" -> "sv_find"
    [] op = "assignUserToService" -> "as_user"
    [] op = "updateRole" -> "ur_find"
    [] op = "deleteRole" -> "dr_find"
    [] op = "deleteService" -> "ds_find"
    [] op = "regenerateCredentials" -> "rc_find"
    [] op = "authenticateService" -> "svc_find"
    [] op = "updateCustomData" -> "cd_find"

\* first middleware of a route
Entry(op) == IF op \in JwtRoutes THEN "auth_user" ELSE Handler(op)

\* a gate that decides by the union of the permission sets alone
permittedByUnion(userRoles, permission) ==
  \E role \in userRoles : permission \in role.permissions

\* the decision of hasPermission(permission) on req.userRoles
permitted(userRoles, permission) ==
  \/ \E role \in userRoles : role.name = "admin"
  \/ \E role \in userRoles : permission \in role.permissions

IssuedValues == 1..(nextTok - 1)
\* the values of the stored tokens of a type
Stored(type) == {t.token : t \in {x \in tokens : x.type = type}}
Optional(S) == {{}} \cup {{x} : x \in S}
PermissionChoices == {{}, {"user:read"}, {"user:read", "user:write"}}
RoleLists == SUBSET (1..MaxRoles)

\* request bodies and parameters that pass the validation schemas; a
\* specification draws the inputs of a route from a subset of these
Args(op) ==
  CASE op = "loginUser" ->
         [username : Usernames, password : Passwords, serviceId : {Null} \cup ServiceIds]
    [] op = "refreshToken" -> [refreshToken : IssuedValues]
    [] op = "verifyEmail" -> [token : IssuedValues]
    [] op = "forgotPassword" -> [email : {"admin@toc", "alice@toc", "nobody@toc"}]
    [] op = "resetPassword" -> [token : IssuedValues, password : Passwords]
    [] op = "changePassword" -> [currentPassword : Passwords, newPassword : Passwords]
    [] op = "logoutUser" -> [refreshToken : Optional(IssuedValues)]
    [] op = "updateUser" ->
         [id : UserIds, status : Optional(Statuses), isEmailVerified : Optional(BOOLEAN)]
    [] op = "deleteUser" -> [id : UserIds]
    [] op = "createRole" ->
         [name : RoleNames, isGlobal : BOOLEAN, serviceId : {Null} \cup ServiceIds,
          permissions : PermissionChoices]
    [] op = "updateUserService" ->
         [id : 1..4, roles : Optional(RoleLists), status : Optional(GrantStatuses)]
    [] op = "removeUserFromService" -> [id : 1..4]
    [] op = "updateService" -> [id : ServiceIds, active : BOOLEAN]
    [] op = "assignUserToService" ->
         [userId : UserIds \cup {"u3"}, serviceId : ServiceIds,
          roles : SUBSET (1..(MaxRoles + 1)), status : GrantStatuses]
    [] op = "registerUser" ->
         [username : {"alice", "bob"}, email : {"alice@toc", "bob@toc", "Bob@toc"},
          password : {"Passw0rd1"}]
    [] op = "updateRole" ->
         [id : 1..(MaxRoles + 1), name : RoleNames, isGlobal : Optional(BOOLEAN),
          serviceId : Optional(ServiceIds), permissions : Optional(PermissionChoices)]
    [] op = "deleteRole" -> [id : 1..(MaxRoles + 1)]
    [] op = "deleteService" -> [id : ServiceIds]
    [] op = "regenerateCredentials" -> [id : ServiceIds]
    [] op = "authenticateService" -> [apiKey : {0} \cup Secrets, apiSecret : {0} \cup Secrets]
    [] op = "updateCustomData" ->
         [userId : UserIds, serviceId : ServiceIds, customData : Optional(SUBSET CustomKeys)]
    [] OTHER -> {<<>>}

Issuing == {"loginUser", "forgotPassword", "registerUser"}
InFlightIssuers == Cardinality({q \in Reqs : req[q].op \in Issuing /\ req[q].pc # "done"})

InFlightCreators == Cardinality({q \in Reqs : req[q].op = "createRole" /\ req[q].pc # "done"})

db == <<users, services, roles, grants, tokens, audit>>
counters == <<now, ticks, nextTok, nextRole, started, nextUser, nextGrant>>

\* the tag auditLogger(action) is given on a route
Action(op) ==
  CASE op = "registerUser" -> "user:register"
    [] op = "loginUser" -> "user:login"
    [] op = "refreshToken" -> "user:refresh_token"
    [] op = "verifyEmail" -> "user:verify_email"
    [] op = "forgotPassword" -> "user:forgot_password"
    [] op = "resetPassword" -> "user:reset_password"
    [] op = "changePassword" -> "user:change_password"
    [] op = "logoutUser" -> "user:logout"
    [] op = "getUsers" -> "user:get_all"
    [] op = "updateUser" -> "user:update"
    [] op = "deleteUser" -> "user:delete"
    [] op = "createRole" -> "role:create"
    [] op = "updateRole" -> "role:update"
    [] op = "deleteRole" -> "role:delete"
    [] op = "assignUserToService" -> "user_service:assign"
    [] op = "updateUserService" -> "user_service:update"
    [] op = "removeUserFromService" -> "user_service:remove"
    [] op = "updateService" -> "service:update"
    [] op = "deleteService" -> "service:delete"
    [] op = "regenerateCredentials" -> "service:regenerate_credentials"
    [] op = "updateCustomData" -> "user_service:update_custom_data"
    [] OTHER -> Null

\* a wrapper that logs whatever the status code is
successfulOrNot(code) == TRUE

\* res.statusCode >= 200 && res.statusCode < 300
successful(code) == code >= 200 /\ code < 300

\* the keys of the object a handler passes to res.json with a 2xx status,
\* nested keys as paths
responseData(q) ==
  CASE q.op = "loginUser" -> {"success", "message", "token", "refreshToken", "user"}
    [] q.op = "refreshToken" -> {"success", "token", "user"}
    [] q.op = "forgotPassword" ->
         IF q.userDoc = {} THEN {"success", "message"}
         ELSE {"success", "message", "resetToken"}
    [] q.op \in {"registerUser", "updateUser"} -> {"success", "message", "user"}
    [] q.op = "regenerateCredentials" ->
         {"success", "message", "service._id", "service.name", "service.apiKey",
          "service.apiSecret"}
    [] q.op = "createRole" -> {"success", "message", "role"}
    [] q.op \in {"assignUserToService", "updateUserService"} ->
         {"success", "message", "userService"}
    [] q.op = "updateService" -> {"success", "message", "service"}
    [] q.op = "getUsers" ->
         {"success", "count", "total", "totalPages", "currentPage", "users"}
    [] OTHER -> {"success", "message"}

\* the response is sent: the request keeps its req.* fields, its locals go
Sent(q, code) ==
  [q EXCEPT !.pc = "done", !.status = code, !.tokenDoc = {}, !.userDoc = {},
            !.grantDoc = {}, !.roleDoc = {}, !.ids = {}, !.out = {}]

\* res.status(code).json(data): on a route wrapped by auditLogger a 2xx
\* response waits for AuditLog.logAction
Answered(q, code) ==
  IF q.action # Null /\ successful(code)
  THEN [Sent(q, code) EXCEPT !.pc = "res_json", !.data = responseData(q)]
  ELSE Sent(q, code)
Reply(r, code) == [req EXCEPT ![r] = Answered(@, code)]

\* next() out of authenticate runs the rest of the route synchronously:
\* hasPermission(permission) when the route has one, then the handler up to
\* its first await
hasPermission(q) ==
  IF Permission(q.op) = "" THEN [q EXCEPT !.pc = Handler(q.op)]
  ELSE IF ~q.hasRoles THEN Answered(q, 500)
  ELSE IF ~permitted(q.userRoles, Permission(q.op)) THEN Answered(q, 403)
  ELSE [q EXCEPT !.pc = Handler(q.op)]

\* a slot is free when it holds no request or one that has been answered
Free(r) == req[r].pc \in {"idle", "done"}
\* interchangeable clients take the first free slot
FirstFree(r) == Free(r) /\ (r = "q2" => ~Free("q1"))

\* the refresh tokens in the store when a request arrives
Outstanding == Stored("refresh")

\* a request arrives on route op, with a bearer token and inputs drawn from
\* the given sets, and enters its first middleware; wrapped tells whether
\* the route runs with its auditLogger
Arrive(r, op, bearers, args, wrapped) ==
  /\ Free(r)
  /\ started < MaxStarted
  /\ op \in Issuing => nextTok + InFlightIssuers <= MaxTokens
  /\ op = "createRole" => nextRole + InFlightCreators <= MaxRoles
  /\ \E b \in (IF op \in JwtRoutes THEN bearers ELSE {BadJwt}), a \in args :
       req' = [req EXCEPT ![r] =
                 [IdleReq EXCEPT !.op = op, !.pc = Entry(op), !.bearer = b,
                                 !.arg = a, !.pre = Outstanding,
                                 !.action = IF wrapped THEN Action(op) ELSE Null]]
  /\ started' = started + 1
  /\ UNCHANGED <<db, jwts, now, ticks, nextTok, nextRole, nextUser, nextGrant>>

Receive(r, op, bearers, args) == Arrive(r, op, bearers, args, FALSE)
ReceiveAudited(r, op, bearers, args) == Arrive(r, op, bearers, args, TRUE)

\* the bearer values a client may present, and those of the administrator's
\* global sessions
AnyBearer == jwts \cup {BadJwt}
AdminBearer == {j \in jwts : j.id = "u1" /\ j.serviceId = Null}

\* time passes
Tick ==
  /\ ticks < MaxTicks
  /\ \E d \in TickSteps : now' = now + d
  /\ ticks' = ticks + 1
  /\ UNCHANGED <<db, jwts, req, nextTok, nextRole, started, nextUser, nextGrant>>

\* the TTL index on Token.createdAt (expires: '30d')
TtlSweep ==
  /\ \E t \in tokens : t.createdAt + 24 * RetentionDays <= now
  /\ tokens' = {t \in tokens : ~(t.createdAt + 24 * RetentionDays <= now)}
  /\ UNCHANGED <<users, services, roles, grants, jwts, req, counters, audit>>

\* ------------------------------------------------------------- authenticate
\* an authenticate that does not look at the status of the user
AuthUserAnyStatus(r) ==
  /\ req[r].pc = "auth_user"
  /\ LET decoded == req[r].bearer
         user == findById(users, decoded.id)
     IN req' =
          IF ~jwtVerify(decoded) THEN Reply(r, 401)
          ELSE IF user = {} THEN Reply(r, 401)
          ELSE [req EXCEPT ![r].user = decoded.id,
                           ![r].pc = IF decoded.serviceId # Null
                                     THEN "auth_service" ELSE "auth_distinct"]
  /\ UNCHANGED <<db, jwts, counters>>

\* jwt.verify, User.findById and the checks on the user
AuthUser(r) ==
  /\ req[r].pc = "auth_user"
  /\ LET decoded == req[r].bearer
         user == findById(users, decoded.id)
     IN req' =
          IF ~jwtVerify(decoded) THEN Reply(r, 401)
          ELSE IF user = {} THEN Reply(r, 401)
          ELSE IF (CHOOSE u \in user : TRUE).status # "active" THEN Reply(r, 403)
          ELSE [req EXCEPT ![r].user = decoded.id,
                           ![r].pc = IF decoded.serviceId # Null
                                     THEN "auth_service" ELSE "auth_distinct"]
  /\ UNCHANGED <<db, jwts, counters>>

\* Service.findById(decoded.serviceId) and the checks on the service
AuthService(r) ==
  /\ req[r].pc = "auth_service"
  /\ LET service == findById(services, req[r].bearer.serviceId)
     IN req' =
          IF service = {} THEN Reply(r, 401)
          ELSE IF ~(CHOOSE s \in service : TRUE).active THEN Reply(r, 403)
          ELSE [req EXCEPT ![r].service = req[r].bearer.serviceId,
                           ![r].pc = "auth_grant"]
  /\ UNCHANGED <<db, jwts, counters>>

\* UserService.findOne({userId, serviceId})
AuthGrant(r) ==
  /\ req[r].pc = "auth_grant"
  /\ LET userService == {g \in grants : g.userId = req[r].user
                                         /\ g.serviceId = req[r].service}
     IN req' =
          IF userService = {} THEN Reply(r, 403)
          ELSE [req EXCEPT ![r].grantDoc = userService, ![r].pc = "auth_populate"]
  /\ UNCHANGED <<db, jwts, counters>>

\* an authenticate that does not look at the status of the grant
AuthPopulateAnyStatus(r) ==
  /\ req[r].pc = "auth_populate"
  /\ LET userService == CHOOSE g \in req[r].grantDoc : TRUE
         populated == {ro \in roles : ro._id \in userService.roles}
     IN req' = [req EXCEPT ![r] = hasPermission([@ EXCEPT !.hasRoles = TRUE,
                                                          !.userRoles = populated])]
  /\ UNCHANGED <<db, jwts, counters>>

\* .populate('roles') of the grant found, then the check on its status
AuthPopulate(r) ==
  /\ req[r].pc = "auth_populate"
  /\ LET userService == CHOOSE g \in req[r].grantDoc : TRUE
         populated == {ro \in roles : ro._id \in userService.roles}
     IN req' =
          IF userService.status # "active" THEN Reply(r, 403)
          ELSE [req EXCEPT ![r] = hasPermission([@ EXCEPT !.hasRoles = TRUE,
                                                           !.userRoles = populated])]
  /\ UNCHANGED <<db, jwts, counters>>

\* UserService.distinct('roles', {userId})
AuthDistinct(r) ==
  /\ req[r].pc = "auth_distinct"
  /\ req' = [req EXCEPT ![r].ids = UNION {g.roles : g \in {x \in grants : x.userId = req[r].user}},
                        ![r].pc = "auth_roles"]
  /\ UNCHANGED <<db, jwts, counters>>

\* a Role.find without the isGlobal filter
AuthRolesAnyScope(r) ==
  /\ req[r].pc = "auth_roles"
  /\ LET allRoles == {ro \in roles : ro._id \in req[r].ids}
     IN req' = [req EXCEPT ![r] = hasPermission([@ EXCEPT !.hasRoles = TRUE,
                                                          !.userRoles = allRoles])]
  /\ UNCHANGED <<db, jwts, counters>>

\* Role.find({_id: {$in: ids}, isGlobal: true})
AuthRoles(r) ==
  /\ req[r].pc = "auth_roles"
  /\ LET globalRoles == {ro \in roles : ro._id \in req[r].ids /\ ro.isGlobal}
     IN req' = [req EXCEPT ![r] = hasPermission([@ EXCEPT !.hasRoles = TRUE,
                                                          !.userRoles = globalRoles])]
  /\ UNCHANGED <<db, jwts, counters>>

\* getUsers, getAuditLogs: handlers that only read
ReadOnly(r) ==
  /\ req[r].pc = "read"
  /\ req' = Reply(r, 200)
  /\ UNCHANGED <<db, jwts, counters>>

\* ----------------------------------------------------------------- loginUser
\* User.findOne({username}), comparePassword and the status check
LoginUser(r) ==
  /\ req[r].pc = "login_user"
  /\ LET user == {u \in users : u.username = req[r].arg.username}
         u == CHOOSE x \in user : TRUE
     IN req' =
          IF user = {} THEN Reply(r, 401)
          ELSE IF ~comparePassword(req[r].arg.password, u.password) THEN Reply(r, 401)
          ELSE IF u.status # "active" THEN Reply(r, 403)
          ELSE [req EXCEPT ![r].userDoc = user,
                           ![r].pc = IF req[r].arg.serviceId # Null
                                     THEN "login_grant" ELSE "login_save"]
  /\ UNCHANGED <<db, jwts, counters>>

\* UserService.findOne({userId, serviceId}) and the checks on the grant
LoginGrant(r) ==
  /\ req[r].pc = "login_grant"
  /\ LET u == CHOOSE x \in req[r].userDoc : TRUE
         userService == {g \in grants : g.userId = u._id
                                        /\ g.serviceId = req[r].arg.serviceId}
     IN req' =
          IF userService = {} THEN Reply(r, 403)
          ELSE IF (CHOOSE g \in userService : TRUE).status # "active" THEN Reply(r, 403)
          ELSE [req EXCEPT ![r].service = req[r].arg.serviceId, ![r].pc = "login_save"]
  /\ UNCHANGED <<db, jwts, counters>>

\* user.save() of lastLoginAt (fails when the document is gone), then
\* generateToken(user, service)
LoginSave(r) ==
  /\ req[r].pc = "login_save"
  /\ LET u == CHOOSE x \in req[r].userDoc : TRUE
     IN req' =
          IF findById(users, u._id) = {} THEN Reply(r, 500)
          ELSE [req EXCEPT ![r].out = {generateToken(u._id, req[r].service)},
                           ![r].pc = "login_token"]
  /\ UNCHANGED <<db, jwts, counters>>

\* Token.generateRefreshToken and the response carrying both tokens
LoginToken(r) ==
  /\ req[r].pc = "login_token"
  /\ LET u == CHOOSE x \in req[r].userDoc : TRUE
     IN tokens' = tokens \cup {newToken(nextTok, u._id, "refresh", req[r].service)}
  /\ nextTok' = nextTok + 1
  /\ jwts' = jwts \cup req[r].out
  /\ req' = Reply(r, 200)
  /\ UNCHANGED <<users, services, roles, grants, now, ticks, nextRole, started, audit, nextUser, nextGrant>>

\* ------------------------------------ authenticateRefreshToken, refreshToken
\* document.delete() / deleteOne(): removes the document with that _id
deleteDoc(coll, doc) == {d \in coll : \A x \in doc : d._id # x._id}

\* Token.findOne({token, type})
findToken(value, type) == {t \in tokens : t.token = value /\ t.type = type}

\* Token.findOne({token: refreshToken, type: 'refresh'}) and the expiry check
RefreshFind(r) ==
  /\ req[r].pc = "rt_find"
  /\ LET tokenDoc == findToken(req[r].arg.refreshToken, "refresh")
     IN req' =
          IF tokenDoc = {} THEN Reply(r, 401)
          ELSE [req EXCEPT ![r].tokenDoc = tokenDoc,
                           ![r].pc = IF isExpired(CHOOSE t \in tokenDoc : TRUE)
                                     THEN "rt_expired" ELSE "rt_user"]
  /\ UNCHANGED <<db, jwts, counters>>

\* tokenDoc.delete() on the expired and the user-not-found paths
RefreshAbort(r) ==
  /\ req[r].pc \in {"rt_expired", "rt_nouser"}
  /\ tokens' = deleteDoc(tokens, req[r].tokenDoc)
  /\ req' = Reply(r, 401)
  /\ UNCHANGED <<users, services, roles, grants, jwts, counters, audit>>

\* a refreshToken handler that rotates: it deletes the token it exchanged
refreshResponseRotating(r, userId, serviceId) ==
  /\ jwts' = jwts \cup {generateToken(userId, serviceId)}
  /\ req' = [req EXCEPT ![r] = Answered([@ EXCEPT !.user = userId,
                                                    !.service = serviceId], 200)]
  /\ tokens' = deleteDoc(tokens, req[r].tokenDoc)

\* the access token refreshToken signs and its 200 response; the token
\* document found by authenticateRefreshToken is left as it is
refreshResponse(r, userId, serviceId) ==
  /\ jwts' = jwts \cup {generateToken(userId, serviceId)}
  /\ req' = [req EXCEPT ![r] = Answered([@ EXCEPT !.user = userId,
                                                    !.service = serviceId], 200)]
  /\ UNCHANGED tokens

\* User.findById(tokenDoc.userId) and the checks on the user; without a
\* service in the token's metadata the refreshToken handler answers at once
RefreshUser(r) ==
  /\ req[r].pc = "rt_user"
  /\ LET tokenDoc == CHOOSE t \in req[r].tokenDoc : TRUE
         user == findById(users, tokenDoc.userId)
     IN IF user = {}
        THEN req' = [req EXCEPT ![r].pc = "rt_nouser"] /\ UNCHANGED <<jwts, tokens>>
        ELSE IF (CHOOSE u \in user : TRUE).status # "active"
        THEN req' = Reply(r, 403) /\ UNCHANGED <<jwts, tokens>>
        ELSE IF tokenDoc.serviceId # Null
        THEN req' = [req EXCEPT ![r].user = tokenDoc.userId, ![r].pc = "rt_service"]
             /\ UNCHANGED <<jwts, tokens>>
        ELSE refreshResponse(r, tokenDoc.userId, Null)
  /\ UNCHANGED <<users, services, roles, grants, counters, audit>>

\* Service.findById(tokenDoc.metadata.serviceId), then the refreshToken handler
RefreshService(r) ==
  /\ req[r].pc = "rt_service"
  /\ LET tokenDoc == CHOOSE t \in req[r].tokenDoc : TRUE
         service == findById(services, tokenDoc.serviceId)
     IN IF service # {} /\ (CHOOSE x \in service : TRUE).active
        THEN refreshResponse(r, req[r].user, tokenDoc.serviceId)
        ELSE refreshResponse(r, req[r].user, Null)
  /\ UNCHANGED <<users, services, roles, grants, counters, audit>>

\* --------------------------------------------------------------- verifyEmail
\* Token.findOne({token, type: 'verification'}) and the expiry check
VerifyFind(r) ==
  /\ req[r].pc = "ve_find"
  /\ LET tokenDoc == findToken(req[r].arg.token, "verification")
     IN req' =
          IF tokenDoc = {} THEN Reply(r, 400)
          ELSE [req EXCEPT ![r].tokenDoc = tokenDoc,
                           ![r].pc = IF isExpired(CHOOSE t \in tokenDoc : TRUE)
                                     THEN "ve_expired" ELSE "ve_user"]
  /\ UNCHANGED <<db, jwts, counters>>

\* tokenDoc.delete() on the expired and the user-not-found paths
VerifyAbort(r) ==
  /\ req[r].pc \in {"ve_expired", "ve_nouser"}
  /\ tokens' = deleteDoc(tokens, req[r].tokenDoc)
  /\ req' = Reply(r, IF req[r].pc = "ve_expired" THEN 400 ELSE 404)
  /\ UNCHANGED <<users, services, roles, grants, jwts, counters, audit>>

\* User.findById(tokenDoc.userId)
VerifyUser(r) ==
  /\ req[r].pc = "ve_user"
  /\ LET tokenDoc == CHOOSE t \in req[r].tokenDoc : TRUE
         user == findById(users, tokenDoc.userId)
     IN req' =
          IF user = {} THEN [req EXCEPT ![r].pc = "ve_nouser"]
          ELSE [req EXCEPT ![r].userDoc = user,
                           ![r].pc = IF ~(CHOOSE u \in user : TRUE).isEmailVerified
                                     THEN "ve_save" ELSE "ve_delete"]
  /\ UNCHANGED <<db, jwts, counters>>

\* user.save() of isEmailVerified = true, status = 'active'
VerifySave(r) ==
  /\ req[r].pc = "ve_save"
  /\ LET id == (CHOOSE u \in req[r].userDoc : TRUE)._id
     IN IF findById(users, id) = {}
        THEN req' = Reply(r, 500) /\ UNCHANGED users
        ELSE /\ users' = {IF u._id = id
                           THEN [u EXCEPT !.isEmailVerified = TRUE, !.status = "active"]
                           ELSE u : u \in users}
             /\ req' = [req EXCEPT ![r].pc = "ve_delete"]
  /\ UNCHANGED <<services, roles, grants, tokens, jwts, counters, audit>>

\* tokenDoc.delete() and the 200 response
VerifyDelete(r) ==
  /\ req[r].pc = "ve_delete"
  /\ tokens' = deleteDoc(tokens, req[r].tokenDoc)
  /\ req' = Reply(r, 200)
  /\ UNCHANGED <<users, services, roles, grants, jwts, counters, audit>>

\* ------------------------------------------------------------ forgotPassword
\* User.findOne({email})
ForgotUser(r) ==
  /\ req[r].pc = "fp_user"
  /\ LET user == {u \in users : u.email = req[r].arg.email}
     IN req' = IF user = {} THEN Reply(r, 200)
               ELSE [req EXCEPT ![r].userDoc = user, ![r].pc = "fp_token"]
  /\ UNCHANGED <<db, jwts, counters>>

\* Token.generatePasswordResetToken and the response carrying resetToken
ForgotToken(r) ==
  /\ req[r].pc = "fp_token"
  /\ tokens' = tokens \cup {newToken(nextTok, (CHOOSE u \in req[r].userDoc : TRUE)._id,
                                      "password_reset", Null)}
  /\ nextTok' = nextTok + 1
  /\ req' = Reply(r, 200)
  /\ UNCHANGED <<users, services, roles, grants, jwts, now, ticks, nextRole, started, audit, nextUser, nextGrant>>

\* ------------------------------------------------------------- resetPassword
\* Token.findOne({token, type: 'password_reset'}) and the expiry check
ResetFind(r) ==
  /\ req[r].pc = "rp_find"
  /\ LET tokenDoc == findToken(req[r].arg.token, "password_reset")
     IN req' =
          IF tokenDoc = {} THEN Reply(r, 400)
          ELSE [req EXCEPT ![r].tokenDoc = tokenDoc,
                           ![r].pc = IF isExpired(CHOOSE t \in tokenDoc : TRUE)
                                     THEN "rp_expired" ELSE "rp_user"]
  /\ UNCHANGED <<db, jwts, counters>>

\* tokenDoc.delete() on the expired and the user-not-found paths
ResetAbort(r) ==
  /\ req[r].pc \in {"rp_expired", "rp_nouser"}
  /\ tokens' = deleteDoc(tokens, req[r].tokenDoc)
  /\ req' = Reply(r, IF req[r].pc = "rp_expired" THEN 400 ELSE 404)
  /\ UNCHANGED <<users, services, roles, grants, jwts, counters, audit>>

\* User.findById(tokenDoc.userId)
ResetUser(r) ==
  /\ req[r].pc = "rp_user"
  /\ LET tokenDoc == CHOOSE t \in req[r].tokenDoc : TRUE
         user == findById(users, tokenDoc.userId)
     IN req' =
          IF user = {} THEN [req EXCEPT ![r].pc = "rp_nouser"]
          ELSE [req EXCEPT ![r].userDoc = user, ![r].pc = "rp_save"]
  /\ UNCHANGED <<db, jwts, counters>>

\* user.save() of a modified password (hashed by the pre-save hook)
savePassword(r, password, nextPc) ==
  LET id == (CHOOSE u \in req[r].userDoc : TRUE)._id
  IN IF findById(users, id) = {}
     THEN req' = Reply(r, 500) /\ UNCHANGED users
     ELSE /\ users' = {IF u._id = id THEN [u EXCEPT !.password = Hash(password)]
                        ELSE u : u \in users}
          /\ req' = [req EXCEPT ![r].pc = nextPc]

\* a deleteMany that matches the other kinds of token only
revokeOtherTokens(coll, userId) ==
  {t \in coll : ~(t.userId = userId /\ t.type # "refresh")}

\* Token.deleteMany({userId, type: 'refresh'})
revokeRefreshTokens(coll, userId) ==
  {t \in coll : ~(t.userId = userId /\ t.type = "refresh")}

\* user.password = password; user.save()
ResetSave(r) ==
  /\ req[r].pc = "rp_save"
  /\ savePassword(r, req[r].arg.password, "rp_delete")
  /\ UNCHANGED <<services, roles, grants, tokens, jwts, counters, audit>>

\* tokenDoc.delete()
ResetDelete(r) ==
  /\ req[r].pc = "rp_delete"
  /\ tokens' = deleteDoc(tokens, req[r].tokenDoc)
  /\ req' = [req EXCEPT ![r].pc = "rp_revoke"]
  /\ UNCHANGED <<users, services, roles, grants, jwts, counters, audit>>

\* Token.deleteMany of the user's refresh tokens and the 200 response
ResetRevoke(r) ==
  /\ req[r].pc = "rp_revoke"
  /\ tokens' = revokeRefreshTokens(tokens, (CHOOSE u \in req[r].userDoc : TRUE)._id)
  /\ req' = Reply(r, 200)
  /\ UNCHANGED <<users, services, roles, grants, jwts, counters, audit>>

\* ------------------------------------------------------------ changePassword
\* User.findById(req.user._id).select('+password') and comparePassword
ChangeUser(r) ==
  /\ req[r].pc = "cp_user"
  /\ LET user == findById(users, req[r].user)
     IN req' =
          IF user = {} THEN Reply(r, 404)
          ELSE IF ~comparePassword(req[r].arg.currentPassword,
                                   (CHOOSE u \in user : TRUE).password)
          THEN Reply(r, 401)
          ELSE [req EXCEPT ![r].userDoc = user, ![r].pc = "cp_save"]
  /\ UNCHANGED <<db, jwts, counters>>

\* user.password = newPassword; user.save()
ChangeSave(r) ==
  /\ req[r].pc = "cp_save"
  /\ savePassword(r, req[r].arg.newPassword, "cp_revoke")
  /\ UNCHANGED <<services, roles, grants, tokens, jwts, counters, audit>>

\* Token.deleteMany of the user's refresh tokens and the 200 response
ChangeRevoke(r) ==
  /\ req[r].pc = "cp_revoke"
  /\ tokens' = revokeRefreshTokens(tokens, (CHOOSE u \in req[r].userDoc : TRUE)._id)
  /\ req' = Reply(r, 200)
  /\ UNCHANGED <<users, services, roles, grants, jwts, counters, audit>>

\* ---------------------------------------------------------------- logoutUser
\* a logout that deletes every refresh token of req.user
LogoutUserRevokeAll(r) ==
  /\ req[r].pc = "lo_delete"
  /\ tokens' = {t \in tokens : ~(t.userId = req[r].user /\ t.type = "refresh")}
  /\ req' = Reply(r, 200)
  /\ UNCHANGED <<users, services, roles, grants, jwts, counters, audit>>

\* Token.deleteOne({token: refreshToken, type: 'refresh'}) when the body has
\* a refreshToken, and the 200 response
LogoutUser(r) ==
  /\ req[r].pc = "lo_delete"
  /\ tokens' = {t \in tokens : \A v \in req[r].arg.refreshToken :
                                  ~(t.token = v /\ t.type = "refresh")}
  /\ req' = Reply(r, 200)
  /\ UNCHANGED <<users, services, roles, grants, jwts, counters, audit>>

\* ---------------------------------------------------------------- updateUser
\* User.findById(req.params.id)
UpdateUserFind(r) ==
  /\ req[r].pc = "uu_find"
  /\ LET user == findById(users, req[r].arg.id)
     IN req' = IF user = {} THEN Reply(r, 404)
               ELSE [req EXCEPT ![r].userDoc = user, ![r].pc = "uu_save"]
  /\ UNCHANGED <<db, jwts, counters>>

\* user.save() of the status and isEmailVerified given in the body
UpdateUserSave(r) ==
  /\ req[r].pc = "uu_save"
  /\ LET id == req[r].arg.id
         status(u) == IF req[r].arg.status = {} THEN u.status
                      ELSE CHOOSE x \in req[r].arg.status : TRUE
         verified(u) == IF req[r].arg.isEmailVerified = {} THEN u.isEmailVerified
                        ELSE CHOOSE x \in req[r].arg.isEmailVerified : TRUE
     IN IF findById(users, id) = {}
        THEN req' = Reply(r, 500) /\ UNCHANGED users
        ELSE /\ users' = {IF u._id = id
                           THEN [u EXCEPT !.status = status(u),
                                          !.isEmailVerified = verified(u)]
                           ELSE u : u \in users}
             /\ req' = Reply(r, 200)
  /\ UNCHANGED <<services, roles, grants, tokens, jwts, counters, audit>>

\* ---------------------------------------------------------------- deleteUser
\* User.findById(req.params.id) and the ADMIN_USERNAME check
DeleteUserFind(r) ==
  /\ req[r].pc = "du_find"
  /\ LET user == findById(users, req[r].arg.id)
     IN req' =
          IF user = {} THEN Reply(r, 404)
          ELSE IF (CHOOSE u \in user : TRUE).username = ADMIN_USERNAME THEN Reply(r, 403)
          ELSE [req EXCEPT ![r].userDoc = user, ![r].pc = "du_grants"]
  /\ UNCHANGED <<db, jwts, counters>>

\* UserService.deleteMany({userId})
DeleteUserGrants(r) ==
  /\ req[r].pc = "du_grants"
  /\ grants' = {g \in grants : g.userId # req[r].arg.id}
  /\ req' = [req EXCEPT ![r].pc = "du_tokens"]
  /\ UNCHANGED <<users, services, roles, tokens, jwts, counters, audit>>

\* Token.deleteMany({userId})
DeleteUserTokens(r) ==
  /\ req[r].pc = "du_tokens"
  /\ tokens' = {t \in tokens : t.userId # req[r].arg.id}
  /\ req' = [req EXCEPT ![r].pc = "du_user"]
  /\ UNCHANGED <<users, services, roles, grants, jwts, counters, audit>>

\* a deleteUser that also deletes the audit events of the user
DeleteUserDocPurging(r) ==
  /\ req[r].pc = "du_user"
  /\ users' = deleteDoc(users, req[r].userDoc)
  /\ audit' = SelectSeq(audit, LAMBDA e : e.userId # req[r].arg.id)
  /\ req' = Reply(r, 200)
  /\ UNCHANGED <<services, roles, grants, tokens, jwts, counters>>

\* user.deleteOne() and the 200 response
DeleteUserDoc(r) ==
  /\ req[r].pc = "du_user"
  /\ users' = deleteDoc(users, req[r].userDoc)
  /\ req' = Reply(r, 200)
  /\ UNCHANGED <<services, roles, grants, tokens, jwts, counters, audit>>

\* ---------------------------------------------------------------- createRole
\* the serviceId createRole stores and looks up: null for a global role
roleScope(arg) == IF arg.isGlobal THEN Null ELSE arg.serviceId

\* Role.findOne({name, serviceId})
CreateRoleFind(r) ==
  /\ req[r].pc = "cr_find"
  /\ LET existingRole == {ro \in roles : ro.name = req[r].arg.name
                                          /\ ro.serviceId = roleScope(req[r].arg)}
     IN req' = IF existingRole # {} THEN Reply(r, 400)
               ELSE [req EXCEPT ![r].pc = "cr_save"]
  /\ UNCHANGED <<db, jwts, counters>>

\* role.save(): the insert, rejected by the unique index on (name, serviceId)
CreateRoleSave(r) ==
  /\ req[r].pc = "cr_save"
  /\ LET arg == req[r].arg
         role == [_id |-> nextRole, name |-> arg.name, isGlobal |-> arg.isGlobal,
                  serviceId |-> roleScope(arg), permissions |-> arg.permissions]
     IN IF \E ro \in roles : ro.name = role.name /\ ro.serviceId = role.serviceId
        THEN req' = Reply(r, 400) /\ UNCHANGED <<roles, nextRole>>
        ELSE /\ roles' = roles \cup {role}
             /\ nextRole' = nextRole + 1
             /\ req' = Reply(r, 201)
  /\ UNCHANGED <<users, services, grants, tokens, jwts, now, ticks, nextTok, started, audit, nextUser, nextGrant>>

\* --------------------------------------------------------- updateUserService
\* UserService.findById(req.params.id)
UpdateGrantFind(r) ==
  /\ req[r].pc = "us_find"
  /\ LET userService == findById(grants, req[r].arg.id)
     IN req' = IF userService = {} THEN Reply(r, 404)
               ELSE [req EXCEPT ![r].grantDoc = userService,
                                ![r].pc = IF req[r].arg.roles # {}
                                          THEN "us_roles" ELSE "us_save"]
  /\ UNCHANGED <<db, jwts, counters>>

\* a Role.find without the $or on serviceId and isGlobal
validRolesAnyScope(ids, serviceId) == {ro \in roles : ro._id \in ids}

\* Role.find({_id: {$in: roles}, $or: [{serviceId}, {isGlobal: true}]})
validRoles(ids, serviceId) ==
  {ro \in roles : ro._id \in ids /\ (ro.serviceId = serviceId \/ ro.isGlobal)}

\* the role check of updateUserService
UpdateGrantRoles(r) ==
  /\ req[r].pc = "us_roles"
  /\ LET userService == CHOOSE g \in req[r].grantDoc : TRUE
         wanted == CHOOSE x \in req[r].arg.roles : TRUE
     IN req' =
          IF Cardinality(validRoles(wanted, userService.serviceId)) # Cardinality(wanted)
          THEN Reply(r, 400)
          ELSE [req EXCEPT ![r].pc = "us_save"]
  /\ UNCHANGED <<db, jwts, counters>>

\* userService.save() of the roles and status given in the body
UpdateGrantSave(r) ==
  /\ req[r].pc = "us_save"
  /\ LET id == req[r].arg.id
         newRoles(g) == IF req[r].arg.roles = {} THEN g.roles
                        ELSE CHOOSE x \in req[r].arg.roles : TRUE
         newStatus(g) == IF req[r].arg.status = {} THEN g.status
                         ELSE CHOOSE x \in req[r].arg.status : TRUE
     IN IF findById(grants, id) = {}
        THEN req' = Reply(r, 500) /\ UNCHANGED grants
        ELSE /\ grants' = {IF g._id = id
                            THEN [g EXCEPT !.roles = newRoles(g), !.status = newStatus(g)]
                            ELSE g : g \in grants}
             /\ req' = Reply(r, 200)
  /\ UNCHANGED <<users, services, roles, tokens, jwts, counters, audit>>

\* ----------------------------------------------------- removeUserFromService
\* UserService.findById(id).populate('userId').populate('serviceId'); out
\* records which of the two references were populated
RemoveGrantFind(r) ==
  /\ req[r].pc = "rm_find"
  /\ LET userService == findById(grants, req[r].arg.id)
         g == CHOOSE x \in userService : TRUE
     IN req' =
          IF userService = {} THEN Reply(r, 404)
          ELSE [req EXCEPT ![r].grantDoc = userService,
                           ![r].out = {"userId" : u \in findById(users, g.userId)}
                                      \cup {"serviceId" : x \in findById(services, g.serviceId)},
                           ![r].pc = "rm_delete"]
  /\ UNCHANGED <<db, jwts, counters>>

\* userService.deleteOne(), then the message built from the populated
\* references (a TypeError, answered 500, when one of them is null)
RemoveGrantDelete(r) ==
  /\ req[r].pc = "rm_delete"
  /\ grants' = deleteDoc(grants, req[r].grantDoc)
  /\ req' = Reply(r, IF req[r].out = {"userId", "serviceId"} THEN 200 ELSE 500)
  /\ UNCHANGED <<users, services, roles, tokens, jwts, counters, audit>>

\* ---------------------------------------------------------- updateCustomData
\* the check of req.body.customData, then UserService.findOne({userId,
\* serviceId}); the route has no hasPermission and no authenticateService
UpdateCustomDataFind(r) ==
  /\ req[r].pc = "cd_find"
  /\ LET arg == req[r].arg
         userService == {g \in grants : g.userId = arg.userId
                                        /\ g.serviceId = arg.serviceId}
     IN req' = IF arg.customData = {} THEN Reply(r, 400)
               ELSE IF userService = {} THEN Reply(r, 404)
               ELSE [req EXCEPT ![r].grantDoc = userService, ![r].pc = "cd_save"]
  /\ UNCHANGED <<db, jwts, counters>>

\* an object spread {...a, ...b} of objects given by their keys
spread(a, b) == a \cup b

\* userService.save() of the custom data read, merged with those of the body
UpdateCustomDataSave(r) ==
  /\ req[r].pc = "cd_save"
  /\ LET userService == CHOOSE g \in req[r].grantDoc : TRUE
         customData == CHOOSE x \in req[r].arg.customData : TRUE
     IN IF findById(grants, userService._id) = {}
        THEN req' = Reply(r, 500) /\ UNCHANGED grants
        ELSE /\ grants' = {IF g._id = userService._id
                            THEN [g EXCEPT !.customData =
                                    spread(userService.customData, customData)]
                            ELSE g : g \in grants}
             /\ req' = Reply(r, 200)
  /\ UNCHANGED <<users, services, roles, tokens, jwts, counters, audit>>

\* ---------------------------------------------------------------- updateRole
\* validateRequest(schemas.role): the body after validation, where isGlobal
\* and permissions have their defaults when the request left them out
roleBody(arg) ==
  [arg EXCEPT !.isGlobal = IF @ = {} THEN {FALSE} ELSE @,
              !.permissions = IF @ = {} THEN {{}} ELSE @]

\* the handler of PUT /roles/:id, one await at a time: Role.findById and the
\* checks on the body and the role, Role.findOne for the new name, role.save()
UpdateRole(r) ==
  /\ req[r].pc \in {"ur_find", "ur_name", "ur_save"}
  /\ LET body == roleBody(req[r].arg)
         found == findById(roles, req[r].arg.id)
         role == CHOOSE ro \in req[r].roleDoc : TRUE
         renamed == [role EXCEPT !.name = body.name]
         saved(doc) == IF body.permissions = {} THEN doc
                       ELSE [doc EXCEPT !.permissions =
                                          CHOOSE x \in body.permissions : TRUE]
     IN CASE req[r].pc = "ur_find" ->
               /\ req' =
                    IF found = {} THEN Reply(r, 404)
                    ELSE IF body.isGlobal # {} THEN Reply(r, 400)
                    ELSE IF body.serviceId # {} THEN Reply(r, 400)
                    ELSE IF \E ro \in found : ro.name = "admin" /\ ro.isGlobal
                    THEN Reply(r, 403)
                    ELSE [req EXCEPT ![r].roleDoc = found,
                                     ![r].pc = IF \E ro \in found : ro.name # body.name
                                               THEN "ur_name" ELSE "ur_save"]
               /\ roles' = roles
          [] req[r].pc = "ur_name" ->
               /\ req' =
                    IF \E ro \in roles : /\ ro.name = body.name
                                         /\ ro.serviceId = role.serviceId
                                         /\ ro._id # role._id
                    THEN Reply(r, 400)
                    ELSE [req EXCEPT ![r].roleDoc = {renamed}, ![r].pc = "ur_save"]
               /\ roles' = roles
          [] req[r].pc = "ur_save" ->
               IF findById(roles, role._id) = {}
               THEN req' = Reply(r, 500) /\ roles' = roles
               ELSE IF \E ro \in roles : /\ ro.name = role.name
                                         /\ ro.serviceId = role.serviceId
                                         /\ ro._id # role._id
               THEN req' = Reply(r, 400) /\ roles' = roles
               ELSE /\ roles' = {IF ro._id = role._id THEN saved(role) ELSE ro :
                                   ro \in roles}
                    /\ req' = Reply(r, 200)
  /\ UNCHANGED <<users, services, grants, tokens, jwts, counters, audit>>

\* ---------------------------------------------------------------- deleteRole
\* a deleteRole without the two checks on the protected roles
DeleteRoleFindUnprotected(r) ==
  /\ req[r].pc = "dr_find"
  /\ LET role == findById(roles, req[r].arg.id)
     IN req' = IF role = {} THEN Reply(r, 404)
               ELSE [req EXCEPT ![r].roleDoc = role, ![r].pc = "dr_count"]
  /\ UNCHANGED <<db, jwts, counters>>

\* Role.findById(req.params.id) and the checks on the protected roles
DeleteRoleFind(r) ==
  /\ req[r].pc = "dr_find"
  /\ LET role == findById(roles, req[r].arg.id)
     IN req' = IF role = {} THEN Reply(r, 404)
               ELSE IF \E ro \in role : ro.name = "admin" /\ ro.isGlobal
               THEN Reply(r, 403)
               ELSE IF \E ro \in role : ro.name = "user" /\ ro.isGlobal
               THEN Reply(r, 403)
               ELSE [req EXCEPT ![r].roleDoc = role, ![r].pc = "dr_count"]
  /\ UNCHANGED <<db, jwts, counters>>

\* the grants that list a role
grantsWithRole(id) == {g \in grants : id \in g.roles}

\* UserService.countDocuments({roles: role._id})
DeleteRoleCount(r) ==
  /\ req[r].pc = "dr_count"
  /\ LET role == CHOOSE ro \in req[r].roleDoc : TRUE
         usersWithRole == Cardinality(grantsWithRole(role._id))
     IN req' = IF usersWithRole > 0 THEN Reply(r, 400)
               ELSE [req EXCEPT ![r].pc = "dr_delete"]
  /\ UNCHANGED <<db, jwts, counters>>

\* role.deleteOne()
DeleteRoleDelete(r) ==
  /\ req[r].pc = "dr_delete"
  /\ roles' = deleteDoc(roles, req[r].roleDoc)
  /\ req' = Reply(r, 200)
  /\ UNCHANGED <<users, services, grants, tokens, jwts, counters, audit>>

\* ------------------------------------------------------------- updateService
\* Service.findById(req.params.id)
UpdateServiceFind(r) ==
  /\ req[r].pc = "sv_find"
  /\ req' = IF findById(services, req[r].arg.id) = {} THEN Reply(r, 404)
            ELSE [req EXCEPT ![r].pc = "sv_save"]
  /\ UNCHANGED <<db, jwts, counters>>

\* service.save() of the active flag given in the body
UpdateServiceSave(r) ==
  /\ req[r].pc = "sv_save"
  /\ IF findById(services, req[r].arg.id) = {}
     THEN req' = Reply(r, 500) /\ UNCHANGED services
     ELSE /\ services' = {IF x._id = req[r].arg.id
                           THEN [x EXCEPT !.active = req[r].arg.active]
                           ELSE x : x \in services}
          /\ req' = Reply(r, 200)
  /\ UNCHANGED <<users, roles, grants, tokens, jwts, counters, audit>>

\* -------------------------------------------------------------- registerUser
\* the lowercase: true setter of the email path of the User schema
lowercase(email) == IF email = "Bob@toc" THEN "bob@toc" ELSE email

\* User.findOne({$or: [{username}, {email}]}), which returns one of the
\* matching documents (the email of the filter goes through the setter), and
\* the comparisons of its username and email with those of the body
RegisterFind(r) ==
  /\ req[r].pc = "rg_find"
  /\ LET arg == req[r].arg
         matching == {u \in users : \/ u.username = arg.username
                                    \/ u.email = lowercase(arg.email)}
     IN \E existingUser \in (IF matching = {} THEN {{}} ELSE {{u} : u \in matching}) :
          req' = IF \E u \in existingUser : u.username = arg.username \/ u.email = arg.email
                 THEN Reply(r, 400)
                 ELSE [req EXCEPT ![r].pc = "rg_save"]
  /\ UNCHANGED <<db, jwts, counters>>

\* a user.save() that sets the new account active at once
RegisterSaveActive(r) ==
  /\ req[r].pc = "rg_save"
  /\ LET arg == req[r].arg
         user == [_id |-> NewUserIds[nextUser], username |-> arg.username,
                  email |-> lowercase(arg.email), password |-> Hash(arg.password),
                  status |-> "active", isEmailVerified |-> FALSE]
     IN IF \E u \in users : u.username = user.username \/ u.email = user.email
        THEN req' = Reply(r, 400) /\ UNCHANGED <<users, nextUser>>
        ELSE /\ users' = users \cup {user}
             /\ nextUser' = nextUser + 1
             /\ req' = [req EXCEPT ![r].userDoc = {user}, ![r].pc = "rg_role"]
  /\ UNCHANGED <<services, roles, grants, tokens, audit, jwts, now, ticks, nextTok,
                 nextRole, started, nextGrant>>

\* a user.save() into a collection without the unique indexes
RegisterSaveUnindexed(r) ==
  /\ req[r].pc = "rg_save"
  /\ LET arg == req[r].arg
         user == [_id |-> NewUserIds[nextUser], username |-> arg.username,
                  email |-> lowercase(arg.email), password |-> Hash(arg.password),
                  status |-> "pending", isEmailVerified |-> FALSE]
     IN /\ users' = users \cup {user}
        /\ nextUser' = nextUser + 1
        /\ req' = [req EXCEPT ![r].userDoc = {user}, ![r].pc = "rg_role"]
  /\ UNCHANGED <<services, roles, grants, tokens, audit, jwts, now, ticks, nextTok,
                 nextRole, started, nextGrant>>

\* user.save() of new User({username, email, password, ...}): the insert,
\* rejected by the unique indexes on username and on email (E11000, answered
\* 400); status and isEmailVerified take the schema defaults
RegisterSave(r) ==
  /\ req[r].pc = "rg_save"
  /\ LET arg == req[r].arg
         user == [_id |-> NewUserIds[nextUser], username |-> arg.username,
                  email |-> lowercase(arg.email), password |-> Hash(arg.password),
                  status |-> "pending", isEmailVerified |-> FALSE]
     IN IF \E u \in users : u.username = user.username \/ u.email = user.email
        THEN req' = Reply(r, 400) /\ UNCHANGED <<users, nextUser>>
        ELSE /\ users' = users \cup {user}
             /\ nextUser' = nextUser + 1
             /\ req' = [req EXCEPT ![r].userDoc = {user}, ![r].pc = "rg_role"]
  /\ UNCHANGED <<services, roles, grants, tokens, audit, jwts, now, ticks, nextTok,
                 nextRole, started, nextGrant>>

\* Role.findOne({name: 'user', isGlobal: true})
RegisterRole(r) ==
  /\ req[r].pc = "rg_role"
  /\ LET defaultRole == {ro \in roles : ro.name = "user" /\ ro.isGlobal}
     IN req' = [req EXCEPT ![r].ids = {ro._id : ro \in defaultRole},
                           ![r].pc = IF defaultRole # {} THEN "rg_grant" ELSE "rg_token"]
  /\ UNCHANGED <<db, jwts, counters>>

\* an insert into a collection without the unique index
insertGrantUnindexed(coll, grant) == coll \cup {grant}

\* the insert of a UserService document, rejected by the unique index on
\* (userId, serviceId)
insertGrant(coll, grant) ==
  IF \E g \in coll : g.userId = grant.userId /\ g.serviceId = grant.serviceId
  THEN coll ELSE coll \cup {grant}

\* UserService.create({userId, serviceId: null, roles: [defaultRole._id],
\* status: 'active'})
RegisterGrant(r) ==
  /\ req[r].pc = "rg_grant"
  /\ LET user == CHOOSE u \in req[r].userDoc : TRUE
         grant == [_id |-> nextGrant, userId |-> user._id, serviceId |-> Null,
                   roles |-> req[r].ids, status |-> "active",
                   customData |-> {}]
     IN /\ grants' = insertGrant(grants, grant)
        /\ IF grants' = grants
           THEN req' = Reply(r, 400) /\ UNCHANGED nextGrant
           ELSE req' = [req EXCEPT ![r].pc = "rg_token"] /\ nextGrant' = nextGrant + 1
  /\ UNCHANGED <<users, services, roles, tokens, audit, jwts, now, ticks, nextTok,
                 nextRole, started, nextUser>>

\* Token.generateVerificationToken and the 201 response
RegisterToken(r) ==
  /\ req[r].pc = "rg_token"
  /\ tokens' = tokens \cup {newToken(nextTok, (CHOOSE u \in req[r].userDoc : TRUE)._id,
                                      "verification", Null)}
  /\ nextTok' = nextTok + 1
  /\ req' = Reply(r, 201)
  /\ UNCHANGED <<users, services, roles, grants, audit, jwts, now, ticks, nextRole,
                 started, nextUser, nextGrant>>

\* an awaited operation of registerUser rejects (the connection is lost, the
\* write fails): nothing is written by it, and the catch passes the error to
\* next, answered 500
RegisterFault(r) ==
  /\ req[r].pc \in {"rg_find", "rg_save", "rg_role", "rg_grant", "rg_token"}
  /\ req' = Reply(r, 500)
  /\ UNCHANGED <<db, jwts, counters>>

\* ------------------------------------------------------- assignUserToService
\* User.findById(userId)
AssignUser(r) ==
  /\ req[r].pc = "as_user"
  /\ req' = IF findById(users, req[r].arg.userId) = {} THEN Reply(r, 404)
            ELSE [req EXCEPT ![r].pc = "as_service"]
  /\ UNCHANGED <<db, jwts, counters>>

\* Service.findById(serviceId)
AssignService(r) ==
  /\ req[r].pc = "as_service"
  /\ req' = IF findById(services, req[r].arg.serviceId) = {} THEN Reply(r, 404)
            ELSE [req EXCEPT ![r].pc = "as_existing"]
  /\ UNCHANGED <<db, jwts, counters>>

\* UserService.findOne({userId, serviceId})
AssignExisting(r) ==
  /\ req[r].pc = "as_existing"
  /\ LET existingAssignment == {g \in grants : /\ g.userId = req[r].arg.userId
                                                /\ g.serviceId = req[r].arg.serviceId}
     IN req' = IF existingAssignment # {} THEN Reply(r, 400)
               ELSE [req EXCEPT ![r].pc = IF req[r].arg.roles # {}
                                          THEN "as_roles" ELSE "as_save"]
  /\ UNCHANGED <<db, jwts, counters>>

\* the role check of assignUserToService
AssignRoles(r) ==
  /\ req[r].pc = "as_roles"
  /\ req' = IF Cardinality(validRoles(req[r].arg.roles, req[r].arg.serviceId))
                 # Cardinality(req[r].arg.roles)
            THEN Reply(r, 400)
            ELSE [req EXCEPT ![r].pc = "as_save"]
  /\ UNCHANGED <<db, jwts, counters>>

\* userService.save() of new UserService({userId, serviceId, roles, status}):
\* the insert, answered 400 when the unique index rejects it
AssignSave(r) ==
  /\ req[r].pc = "as_save"
  /\ LET arg == req[r].arg
         userService == [_id |-> nextGrant, userId |-> arg.userId,
                         serviceId |-> arg.serviceId, roles |-> arg.roles,
                         status |-> arg.status, customData |-> {}]
     IN /\ grants' = insertGrant(grants, userService)
        /\ IF grants' = grants
           THEN req' = Reply(r, 400) /\ UNCHANGED nextGrant
           ELSE /\ req' = [req EXCEPT ![r].grantDoc = {userService},
                                      ![r].pc = "as_populate"]
                /\ nextGrant' = nextGrant + 1
  /\ UNCHANGED <<users, services, roles, tokens, audit, jwts, now, ticks, nextTok,
                 nextRole, started, nextUser>>

\* userService.populate([...]) and the 201 response
AssignPopulate(r) ==
  /\ req[r].pc = "as_populate"
  /\ req' = Reply(r, 201)
  /\ UNCHANGED <<db, jwts, counters>>

\* ------------------------------------------------------- authenticateService
\* authenticateService: the x-api-key and x-api-secret headers (0: no
\* header), Service.findOne({apiKey}).select('+apiSecret'), the comparison of
\* the secret and the active flag.  No route mounts the middleware: the
\* request ends when it calls next(), recorded as status 200 with
\* req.service attached.
AuthenticateService(r) ==
  /\ req[r].pc = "svc_find"
  /\ LET apiKey == req[r].arg.apiKey
         apiSecret == req[r].arg.apiSecret
         service == {x \in services : x.apiKey = apiKey}
     IN req' =
          IF apiKey = 0 \/ apiSecret = 0 THEN Reply(r, 401)
          ELSE IF service = {} THEN Reply(r, 401)
          ELSE IF \E x \in service : x.apiSecret # apiSecret THEN Reply(r, 401)
          ELSE IF \E x \in service : ~x.active THEN Reply(r, 403)
          ELSE [req EXCEPT ![r] =
                  Answered([@ EXCEPT !.service = (CHOOSE x \in service : TRUE)._id], 200)]
  /\ UNCHANGED <<db, jwts, counters>>

\* ------------------------------------------------------------- deleteService
\* Service.findById(req.params.id)
DeleteServiceFind(r) ==
  /\ req[r].pc = "ds_find"
  /\ req' = IF findById(services, req[r].arg.id) = {} THEN Reply(r, 404)
            ELSE [req EXCEPT ![r].pc = "ds_users"]
  /\ UNCHANGED <<db, jwts, counters>>

\* UserService.countDocuments({serviceId: service._id})
DeleteServiceUsers(r) ==
  /\ req[r].pc = "ds_users"
  /\ LET userCount == Cardinality({g \in grants : g.serviceId = req[r].arg.id})
     IN req' = IF userCount > 0 THEN Reply(r, 400)
               ELSE [req EXCEPT ![r].pc = "ds_roles"]
  /\ UNCHANGED <<db, jwts, counters>>

\* Role.countDocuments({serviceId: service._id})
DeleteServiceRoles(r) ==
  /\ req[r].pc = "ds_roles"
  /\ LET roleCount == Cardinality({ro \in roles : ro.serviceId = req[r].arg.id})
     IN req' = IF roleCount > 0 THEN Reply(r, 400)
               ELSE [req EXCEPT ![r].pc = "ds_delete"]
  /\ UNCHANGED <<db, jwts, counters>>

\* service.deleteOne() and the 200 response
DeleteServiceDoc(r) ==
  /\ req[r].pc = "ds_delete"
  /\ services' = {x \in services : x._id # req[r].arg.id}
  /\ req' = Reply(r, 200)
  /\ UNCHANGED <<users, roles, grants, tokens, jwts, counters, audit>>

\* ----------------------------------------------------- regenerateCredentials
\* Service.findById(req.params.id)
RegenerateFind(r) ==
  /\ req[r].pc = "rc_find"
  /\ req' = IF findById(services, req[r].arg.id) = {} THEN Reply(r, 404)
            ELSE [req EXCEPT ![r].pc = "rc_save"]
  /\ UNCHANGED <<db, jwts, counters>>

\* a regenerateCredentials that draws a new apiSecret and keeps the apiKey
regeneratedSecretOnly(service) ==
  [service EXCEPT !.apiSecret = service.apiSecret + 1]

\* Service.methods.regenerateCredentials: a new random apiKey and a new
\* random apiSecret on the document
regenerated(service) ==
  [service EXCEPT !.apiKey = service.apiKey + 1, !.apiSecret = service.apiSecret + 1]

\* service.regenerateCredentials(): this.save() writes the new apiKey and
\* apiSecret in one update of the document
RegenerateSave(r) ==
  /\ req[r].pc = "rc_save"
  /\ IF findById(services, req[r].arg.id) = {}
     THEN req' = Reply(r, 500) /\ UNCHANGED services
     ELSE /\ services' = {IF x._id = req[r].arg.id THEN regenerated(x) ELSE x :
                            x \in services}
          /\ req' = [req EXCEPT ![r].pc = "rc_read"]
  /\ UNCHANGED <<users, roles, grants, tokens, jwts, counters, audit>>

\* Service.findById(req.params.id).select('+apiSecret') and the response
\* built from it (a TypeError, answered 500, when it is null)
RegenerateRead(r) ==
  /\ req[r].pc = "rc_read"
  /\ req' = Reply(r, IF findById(services, req[r].arg.id) = {} THEN 500 ELSE 200)
  /\ UNCHANGED <<db, jwts, counters>>

\* --------------------------------------------------------------- auditLogger
\* the keys of req.params
paramKeys(q) ==
  CASE q.op \in {"verifyEmail", "resetPassword"} -> {"token"}
    [] q.op \in {"updateUser", "deleteUser", "updateRole", "deleteRole",
                 "updateUserService", "removeUserFromService", "updateService",
                 "deleteService", "regenerateCredentials"} -> {"id"}
    [] q.op = "updateCustomData" -> {"userId", "serviceId"}
    [] OTHER -> {}

\* the keys of req.body
bodyKeys(q) ==
  CASE q.op = "loginUser" ->
         {"username", "password"} \cup (IF q.arg.serviceId = Null THEN {} ELSE {"serviceId"})
    [] q.op = "registerUser" -> {"username", "email", "password", "displayName"}
    [] q.op = "refreshToken" -> {"refreshToken"}
    [] q.op = "forgotPassword" -> {"email"}
    [] q.op = "resetPassword" -> {"password"}
    [] q.op = "changePassword" -> {"currentPassword", "newPassword"}
    [] q.op = "logoutUser" -> IF q.arg.refreshToken = {} THEN {} ELSE {"refreshToken"}
    [] q.op = "updateUser" ->
         (IF q.arg.status = {} THEN {} ELSE {"status"})
         \cup (IF q.arg.isEmailVerified = {} THEN {} ELSE {"isEmailVerified"})
    [] q.op = "updateUserService" ->
         (IF q.arg.roles = {} THEN {} ELSE {"roles"})
         \cup (IF q.arg.status = {} THEN {} ELSE {"status"})
    [] q.op = "createRole" -> {"name", "isGlobal", "serviceId", "permissions"}
    [] q.op = "updateRole" ->
         {"name", "isGlobal"} \cup (IF q.arg.serviceId = {} THEN {} ELSE {"serviceId"})
         \cup (IF q.arg.permissions = {} THEN {} ELSE {"permissions"})
    [] q.op = "assignUserToService" -> {"userId", "serviceId", "roles", "status"}
    [] q.op = "updateService" -> {"active"}
    [] q.op = "updateCustomData" -> IF q.arg.customData = {} THEN {} ELSE {"customData"}
    [] OTHER -> {}

\* the deletes on the copy of req.body
redactBody(body) ==
  body \ {"password", "confirmPassword", "currentPassword", "newPassword", "apiSecret"}

\* the deletes on the shallow copy of the response data
redactResponse(data) == data \ {"user.password", "token", "refreshToken", "apiSecret"}

\* req.service as the middlewares set it (loginUser keeps its service in a
\* local)
reqService(q) == IF q.op = "loginUser" THEN Null ELSE q.service

\* the document AuditLog.logAction creates
auditEvent(q) ==
  [action |-> q.action, userId |-> q.user, serviceId |-> reqService(q),
   statusCode |-> q.status, params |-> paramKeys(q),
   body |-> redactBody(bodyKeys(q)), response |-> redactResponse(q.data),
   timestamp |-> now]

\* a wrapper whose catch answers 500 in place of the handler's response
AuditFailedRethrows(r) ==
  /\ req[r].pc = "res_json"
  /\ req' = [req EXCEPT ![r].pc = "done", ![r].status = 500, ![r].data = {}]
  /\ UNCHANGED <<db, jwts, counters>>

\* AuditLog.logAction throws: the catch logs the error, and
\* originalJson.call(this, data) sends the response
AuditFailed(r) ==
  /\ req[r].pc = "res_json"
  /\ req' = [req EXCEPT ![r].pc = "done"]
  /\ UNCHANGED <<db, jwts, counters>>

\* AuditLog.logAction creates the event, and originalJson.call(this, data)
\* sends the response
AuditLogged(r) ==
  /\ req[r].pc = "res_json"
  /\ audit' = Append(audit, auditEvent(req[r]))
  /\ req' = [req EXCEPT ![r].pc = "done"]
  /\ UNCHANGED <<users, services, roles, grants, tokens, jwts, counters>>

\* ------------------------------------------------------------ specifications
\* Consuming credentials: the refresh exchange, email verification and the
\* password reset, with alice pending and the administrator logged in
\* globally and to s1.  Clients present token values that are stored when
\* they send the request.
ConsumeRoutes == {"refreshToken", "verifyEmail", "forgotPassword", "resetPassword"}
ConsumeArgs(op) ==
  CASE op = "refreshToken" -> [refreshToken : Stored("refresh")]
    [] op = "verifyEmail" -> [token : Stored("verification")]
    [] op = "forgotPassword" -> [email : {"alice@toc", "nobody@toc"}]
    [] op = "resetPassword" -> [token : Stored("password_reset"), password : {"Passw0rd1"}]
InitConsume == InitWith("pending", {"u1"}, <<<<"u1", Null>>, <<"u1", "s1">>>>)
NextConsume ==
  \/ \E r \in Reqs, op \in ConsumeRoutes :
       FirstFree(r) /\ Receive(r, op, AnyBearer, ConsumeArgs(op))
  \/ Tick
  \/ TtlSweep
  \/ \E r \in Reqs : RefreshFind(r)
  \/ \E r \in Reqs : RefreshAbort(r)
  \/ \E r \in Reqs : RefreshUser(r)
  \/ \E r \in Reqs : RefreshService(r)
  \/ \E r \in Reqs : VerifyFind(r)
  \/ \E r \in Reqs : VerifyAbort(r)
  \/ \E r \in Reqs : VerifyUser(r)
  \/ \E r \in Reqs : VerifySave(r)
  \/ \E r \in Reqs : VerifyDelete(r)
  \/ \E r \in Reqs : ForgotUser(r)
  \/ \E r \in Reqs : ForgotToken(r)
  \/ \E r \in Reqs : ResetFind(r)
  \/ \E r \in Reqs : ResetAbort(r)
  \/ \E r \in Reqs : ResetUser(r)
  \/ \E r \in Reqs : ResetSave(r)
  \/ \E r \in Reqs : ResetDelete(r)
  \/ \E r \in Reqs : ResetRevoke(r)
SpecConsume == InitConsume /\ [][NextConsume]_vars

\* Sessions and passwords: alice's password change, password reset and
\* logout (slot q1) against global logins and reset requests (slot q2),
\* with alice verified and logged in once.
SessionRoutes == {"changePassword", "logoutUser", "resetPassword"}
IssuingRoutes == {"loginUser", "forgotPassword"}
PasswordArgs(op) ==
  CASE op = "loginUser" ->
         [username : {"alice"}, password : Passwords, serviceId : {Null}]
    [] op = "forgotPassword" -> [email : {"alice@toc", "nobody@toc"}]
    [] op = "resetPassword" -> [token : Stored("password_reset"), password : {"Passw0rd1"}]
    [] op = "changePassword" -> [currentPassword : Passwords, newPassword : {"Passw0rd1"}]
    [] op = "logoutUser" -> [refreshToken : Optional(Stored("refresh"))]
InitPassword == InitWith("active", {"u2"}, <<<<"u2", Null>>>>)
NextPassword ==
  \/ \E op \in SessionRoutes : Receive("q1", op, AnyBearer, PasswordArgs(op))
  \/ \E op \in IssuingRoutes : Receive("q2", op, AnyBearer, PasswordArgs(op))
  \/ Tick
  \/ TtlSweep
  \/ \E r \in Reqs : AuthUser(r)
  \/ \E r \in Reqs : AuthDistinct(r)
  \/ \E r \in Reqs : AuthRoles(r)
  \/ \E r \in Reqs : LoginUser(r)
  \/ \E r \in Reqs : LoginSave(r)
  \/ \E r \in Reqs : LoginToken(r)
  \/ \E r \in Reqs : ChangeUser(r)
  \/ \E r \in Reqs : ChangeSave(r)
  \/ \E r \in Reqs : ChangeRevoke(r)
  \/ \E r \in Reqs : LogoutUser(r)
  \/ \E r \in Reqs : ForgotUser(r)
  \/ \E r \in Reqs : ForgotToken(r)
  \/ \E r \in Reqs : ResetFind(r)
  \/ \E r \in Reqs : ResetAbort(r)
  \/ \E r \in Reqs : ResetUser(r)
  \/ \E r \in Reqs : ResetSave(r)
  \/ \E r \in Reqs : ResetDelete(r)
  \/ \E r \in Reqs : ResetRevoke(r)
SpecPassword == InitPassword /\ [][NextPassword]_vars

\* The refresh exchange (slot q1) against administration of users and
\* grants (slot q2), with the administrator logged in globally and alice
\* logged in to s1.
RefreshAdminRoutes == {"updateUser", "updateUserService"}
RefreshArgs(op) ==
  CASE op = "updateUser" ->
         [id : {"u2"}, status : Optional(Statuses), isEmailVerified : {{}}]
    [] op = "updateUserService" ->
         [id : {4}, roles : Optional({{}, {2}}), status : Optional(GrantStatuses)]
    [] OTHER -> Args(op)
InitRefresh == InitWith("active", {"u2"}, <<<<"u1", Null>>, <<"u2", "s1">>>>)
NextRefresh ==
  \/ Receive("q1", "refreshToken", AnyBearer, Args("refreshToken"))
  \/ \E op \in RefreshAdminRoutes : Receive("q2", op, AdminBearer, RefreshArgs(op))
  \/ Tick
  \/ TtlSweep
  \/ \E r \in Reqs : AuthUser(r)
  \/ \E r \in Reqs : AuthDistinct(r)
  \/ \E r \in Reqs : AuthRoles(r)
  \/ \E r \in Reqs : RefreshFind(r)
  \/ \E r \in Reqs : RefreshAbort(r)
  \/ \E r \in Reqs : RefreshUser(r)
  \/ \E r \in Reqs : RefreshService(r)
  \/ \E r \in Reqs : UpdateUserFind(r)
  \/ \E r \in Reqs : UpdateUserSave(r)
  \/ \E r \in Reqs : UpdateGrantFind(r)
  \/ \E r \in Reqs : UpdateGrantRoles(r)
  \/ \E r \in Reqs : UpdateGrantSave(r)
SpecRefresh == InitRefresh /\ [][NextRefresh]_vars

\* The resolver on gated routes (slot q1) against administration (slot q2),
\* with both users assigned to s1 and logged in globally and to s1.
InitResolver ==
  InitWith("active", {"u1", "u2"},
           <<<<"u1", Null>>, <<"u1", "s1">>, <<"u2", Null>>, <<"u2", "s1">>>>)
ProbeRoutes == {"getUsers", "getAuditLogs"}

\* The permission gate: the administrator creates roles and puts roles into
\* the grants for s1.
GateAdminRoutes == {"createRole", "updateUserService"}
GateArgs(op) ==
  CASE op = "createRole" ->
         [name : {"admin"}, isGlobal : BOOLEAN, serviceId : ServiceIds,
          permissions : {{}}]
         \cup [name : {"editor"}, isGlobal : BOOLEAN, serviceId : ServiceIds,
               permissions : {{"audit:read"}}]
    [] op = "updateUserService" ->
         [id : {3, 4}, roles : {{{1}}, {{3}}, {{1, 3}}}, status : {{}}]
NextGate ==
  \/ \E op \in ProbeRoutes : Receive("q1", op, AnyBearer, Args(op))
  \/ \E op \in GateAdminRoutes : Receive("q2", op, AdminBearer, GateArgs(op))
  \/ Tick
  \/ \E r \in Reqs : AuthUser(r)
  \/ \E r \in Reqs : AuthService(r)
  \/ \E r \in Reqs : AuthGrant(r)
  \/ \E r \in Reqs : AuthPopulate(r)
  \/ \E r \in Reqs : AuthDistinct(r)
  \/ \E r \in Reqs : AuthRoles(r)
  \/ \E r \in Reqs : ReadOnly(r)
  \/ \E r \in Reqs : CreateRoleFind(r)
  \/ \E r \in Reqs : CreateRoleSave(r)
  \/ \E r \in Reqs : UpdateGrantFind(r)
  \/ \E r \in Reqs : UpdateGrantRoles(r)
  \/ \E r \in Reqs : UpdateGrantSave(r)
SpecGate == InitResolver /\ [][NextGate]_vars

\* Scope resolution: the administrator suspends, reactivates and deletes
\* users, grants and the service.
ScopeAdminRoutes ==
  {"updateUser", "deleteUser", "updateUserService", "removeUserFromService",
   "updateService"}
ScopeArgs(op) ==
  CASE op = "updateUser" ->
         [id : {"u2"}, status : Optional(Statuses), isEmailVerified : {{}}]
    [] op = "updateUserService" ->
         [id : {3, 4}, roles : {{}}, status : Optional(GrantStatuses)]
    [] op = "removeUserFromService" -> [id : {3, 4}]
    [] OTHER -> Args(op)
NextScope ==
  \/ Receive("q1", "getUsers", AnyBearer, Args("getUsers"))
  \/ \E op \in ScopeAdminRoutes : Receive("q2", op, AdminBearer, ScopeArgs(op))
  \/ Tick
  \/ \E r \in Reqs : AuthUser(r)
  \/ \E r \in Reqs : AuthService(r)
  \/ \E r \in Reqs : AuthGrant(r)
  \/ \E r \in Reqs : AuthPopulate(r)
  \/ \E r \in Reqs : AuthDistinct(r)
  \/ \E r \in Reqs : AuthRoles(r)
  \/ \E r \in Reqs : ReadOnly(r)
  \/ \E r \in Reqs : UpdateUserFind(r)
  \/ \E r \in Reqs : UpdateUserSave(r)
  \/ \E r \in Reqs : DeleteUserFind(r)
  \/ \E r \in Reqs : DeleteUserGrants(r)
  \/ \E r \in Reqs : DeleteUserTokens(r)
  \/ \E r \in Reqs : DeleteUserDoc(r)
  \/ \E r \in Reqs : UpdateGrantFind(r)
  \/ \E r \in Reqs : UpdateGrantSave(r)
  \/ \E r \in Reqs : RemoveGrantFind(r)
  \/ \E r \in Reqs : RemoveGrantDelete(r)
  \/ \E r \in Reqs : UpdateServiceFind(r)
  \/ \E r \in Reqs : UpdateServiceSave(r)
SpecScope == InitResolver /\ [][NextScope]_vars

\* Registration and email verification: clients register accounts and present
\* verification tokens, with alice registered and verified.
RegisterRoutes == {"registerUser", "verifyEmail"}
InitRegister == InitWith("active", {}, <<>>)
NextRegister ==
  \/ \E r \in Reqs, op \in RegisterRoutes :
       FirstFree(r) /\ Receive(r, op, AnyBearer, Args(op))
  \/ Tick
  \/ TtlSweep
  \/ \E r \in Reqs : RegisterFind(r)
  \/ \E r \in Reqs : RegisterSave(r)
  \/ \E r \in Reqs : RegisterRole(r)
  \/ \E r \in Reqs : RegisterGrant(r)
  \/ \E r \in Reqs : RegisterToken(r)
  \/ \E r \in Reqs : VerifyFind(r)
  \/ \E r \in Reqs : VerifyAbort(r)
  \/ \E r \in Reqs : VerifyUser(r)
  \/ \E r \in Reqs : VerifySave(r)
  \/ \E r \in Reqs : VerifyDelete(r)
SpecRegister == InitRegister /\ [][NextRegister]_vars

\* Registration when an awaited database operation may fail.
NextRegisterFault ==
  \/ NextRegister
  \/ \E r \in Reqs : RegisterFault(r)
SpecRegisterFault == InitRegister /\ [][NextRegisterFault]_vars

\* Grants: the administrator assigns users to s1 from both slots, and
\* updates the roles of grants, while a client registers; a role of s1 and a
\* role without service have been created.
GrantRoutes == {"assignUserToService", "updateUserService"}
GrantArgs(op) ==
  CASE op = "assignUserToService" ->
         [userId : {"u2", "u3"}, serviceId : ServiceIds, roles : {{}, {1, 3}, {3, 4}},
          status : {"active"}]
    [] op = "updateUserService" ->
         [id : {2, 5}, roles : {{{2}}, {{3}}}, status : {{}}]
    [] op = "registerUser" ->
         [username : {"bob"}, email : {"bob@toc"}, password : {"Passw0rd1"}]
InitGrant == InitRoles("active", {}, <<<<"u1", Null>>>>, {EditorRole, LooseRole})
NextGrant ==
  \/ Receive("q1", "assignUserToService", AdminBearer, GrantArgs("assignUserToService"))
  \/ \E op \in GrantRoutes : Receive("q2", op, AdminBearer, GrantArgs(op))
  \/ Receive("q2", "registerUser", AnyBearer, GrantArgs("registerUser"))
  \/ \E r \in Reqs : AuthUser(r)
  \/ \E r \in Reqs : AuthDistinct(r)
  \/ \E r \in Reqs : AuthRoles(r)
  \/ \E r \in Reqs : AssignUser(r)
  \/ \E r \in Reqs : AssignService(r)
  \/ \E r \in Reqs : AssignExisting(r)
  \/ \E r \in Reqs : AssignRoles(r)
  \/ \E r \in Reqs : AssignSave(r)
  \/ \E r \in Reqs : AssignPopulate(r)
  \/ \E r \in Reqs : UpdateGrantFind(r)
  \/ \E r \in Reqs : UpdateGrantRoles(r)
  \/ \E r \in Reqs : UpdateGrantSave(r)
  \/ \E r \in Reqs : RegisterFind(r)
  \/ \E r \in Reqs : RegisterSave(r)
  \/ \E r \in Reqs : RegisterRole(r)
  \/ \E r \in Reqs : RegisterGrant(r)
  \/ \E r \in Reqs : RegisterToken(r)
SpecGrant == InitGrant /\ [][NextGrant]_vars

\* Roles: the administrator updates and deletes roles from both slots, and
\* creates roles and removes grants from the second.
RoleRoutes == {"updateRole", "deleteRole"}
RoleArgs(op) ==
  CASE op = "updateRole" ->
         [id : {1, 2, 3}, name : {"admin", "editor"}, isGlobal : {{}, {TRUE}},
          serviceId : {{}}, permissions : {{}, {{}}}]
    [] op = "deleteRole" -> [id : {1, 2, 3}]
    [] op = "createRole" ->
         [name : {"admin", "editor"}, isGlobal : BOOLEAN, serviceId : {Null, "s1"},
          permissions : {{"user:read"}}]
    [] op = "removeUserFromService" -> [id : {1, 2}]
InitRole == InitWith("active", {}, <<<<"u1", Null>>>>)
NextRole ==
  \/ \E op \in RoleRoutes : Receive("q1", op, AdminBearer, RoleArgs(op))
  \/ \E op \in RoleRoutes \cup {"createRole", "removeUserFromService"} :
       Receive("q2", op, AdminBearer, RoleArgs(op))
  \/ \E r \in Reqs : AuthUser(r)
  \/ \E r \in Reqs : AuthDistinct(r)
  \/ \E r \in Reqs : AuthRoles(r)
  \/ \E r \in Reqs : UpdateRole(r)
  \/ \E r \in Reqs : DeleteRoleFind(r)
  \/ \E r \in Reqs : DeleteRoleCount(r)
  \/ \E r \in Reqs : DeleteRoleDelete(r)
  \/ \E r \in Reqs : CreateRoleFind(r)
  \/ \E r \in Reqs : CreateRoleSave(r)
  \/ \E r \in Reqs : RemoveGrantFind(r)
  \/ \E r \in Reqs : RemoveGrantDelete(r)
SpecRole == InitRole /\ [][NextRole]_vars

\* Roles in use: the administrator deletes roles from both slots, and changes
\* and removes grants from the second; the role editor of s1 has been created
\* and the administrator's grant on s1 lists it.
InUseArgs(op) ==
  CASE op = "deleteRole" -> [id : {1, 2, 3}]
    [] op = "updateUserService" ->
         [id : {2, 3}, roles : {{{}}, {{3}}}, status : {{}}]
    [] op = "removeUserFromService" -> [id : {2, 3}]
InitInUse == InitDb("active", {"u1"}, <<<<"u1", Null>>>>, {EditorRole}, {3})
NextInUse ==
  \/ Receive("q1", "deleteRole", AdminBearer, InUseArgs("deleteRole"))
  \/ \E op \in {"deleteRole", "updateUserService", "removeUserFromService"} :
       Receive("q2", op, AdminBearer, InUseArgs(op))
  \/ \E r \in Reqs : AuthUser(r)
  \/ \E r \in Reqs : AuthDistinct(r)
  \/ \E r \in Reqs : AuthRoles(r)
  \/ \E r \in Reqs : DeleteRoleFind(r)
  \/ \E r \in Reqs : DeleteRoleCount(r)
  \/ \E r \in Reqs : DeleteRoleDelete(r)
  \/ \E r \in Reqs : UpdateGrantFind(r)
  \/ \E r \in Reqs : UpdateGrantRoles(r)
  \/ \E r \in Reqs : UpdateGrantSave(r)
  \/ \E r \in Reqs : RemoveGrantFind(r)
  \/ \E r \in Reqs : RemoveGrantDelete(r)
SpecInUse == InitInUse /\ [][NextInUse]_vars

\* The audit trail: clients log out and ask for password resets, and delete
\* users and services and regenerate the credentials of a service, every
\* route with its auditLogger; the administrator and alice are logged in
\* globally.
AuditRoutes == {"deleteUser", "deleteService", "regenerateCredentials"}
AuditArgs(op) ==
  CASE op = "logoutUser" -> [refreshToken : {{}, {3}}]
    [] op = "forgotPassword" -> [email : {"alice@toc", "nobody@toc"}]
    [] op = "deleteUser" -> [id : {"u2"}]
    [] op = "deleteService" -> [id : ServiceIds]
    [] op = "regenerateCredentials" -> [id : ServiceIds]
InitAudit == InitWith("active", {}, <<<<"u1", Null>>, <<"u2", Null>>>>)
NextAudit ==
  \/ \E op \in {"logoutUser", "forgotPassword"} :
       ReceiveAudited("q1", op, AnyBearer, AuditArgs(op))
  \/ \E op \in AuditRoutes : ReceiveAudited("q2", op, jwts, AuditArgs(op))
  \/ \E r \in Reqs : AuthUser(r)
  \/ \E r \in Reqs : AuthDistinct(r)
  \/ \E r \in Reqs : AuthRoles(r)
  \/ \E r \in Reqs : LogoutUser(r)
  \/ \E r \in Reqs : ForgotUser(r)
  \/ \E r \in Reqs : ForgotToken(r)
  \/ \E r \in Reqs : DeleteUserFind(r)
  \/ \E r \in Reqs : DeleteUserGrants(r)
  \/ \E r \in Reqs : DeleteUserTokens(r)
  \/ \E r \in Reqs : DeleteUserDoc(r)
  \/ \E r \in Reqs : DeleteServiceFind(r)
  \/ \E r \in Reqs : DeleteServiceUsers(r)
  \/ \E r \in Reqs : DeleteServiceRoles(r)
  \/ \E r \in Reqs : DeleteServiceDoc(r)
  \/ \E r \in Reqs : RegenerateFind(r)
  \/ \E r \in Reqs : RegenerateSave(r)
  \/ \E r \in Reqs : RegenerateRead(r)
  \/ \E r \in Reqs : AuditLogged(r)
SpecAudit == InitAudit /\ [][NextAudit]_vars

\* The audit trail when the write of an event may fail.
NextAuditFault ==
  \/ NextAudit
  \/ \E r \in Reqs : AuditFailed(r)
SpecAuditFault == InitAudit /\ [][NextAuditFault]_vars

\* API credentials: a tenant presents API keys and secrets while the
\* administrator regenerates the credentials of s1 and switches it off and on.
ServiceArgs(op) ==
  CASE op = "authenticateService" -> [apiKey : 0..3, apiSecret : 0..3]
    [] op = "regenerateCredentials" -> [id : ServiceIds]
    [] op = "updateService" -> [id : ServiceIds, active : BOOLEAN]
InitService == InitWith("active", {}, <<<<"u1", Null>>>>)
NextService ==
  \/ Receive("q1", "authenticateService", {BadJwt}, ServiceArgs("authenticateService"))
  \/ \E op \in {"regenerateCredentials", "updateService"} :
       Receive("q2", op, AdminBearer, ServiceArgs(op))
  \/ \E r \in Reqs : AuthUser(r)
  \/ \E r \in Reqs : AuthDistinct(r)
  \/ \E r \in Reqs : AuthRoles(r)
  \/ \E r \in Reqs : AuthenticateService(r)
  \/ \E r \in Reqs : RegenerateFind(r)
  \/ \E r \in Reqs : RegenerateSave(r)
  \/ \E r \in Reqs : RegenerateRead(r)
  \/ \E r \in Reqs : UpdateServiceFind(r)
  \/ \E r \in Reqs : UpdateServiceSave(r)
SpecService == InitService /\ [][NextService]_vars

\* Verification against administration: alice, pending, verifies her email
\* and resets her password while the administrator changes her status or
\* deletes her.
VerifyArgs(op) ==
  CASE op = "verifyEmail" -> [token : Stored("verification")]
    [] op = "forgotPassword" -> [email : {"alice@toc"}]
    [] op = "resetPassword" -> [token : Stored("password_reset"), password : {"Passw0rd1"}]
    [] op = "updateUser" ->
         [id : {"u2"}, status : {{"suspended"}, {"active"}}, isEmailVerified : {{}}]
    [] op = "deleteUser" -> [id : {"u2"}]
InitVerify == InitWith("pending", {}, <<<<"u1", Null>>>>)
NextVerify ==
  \/ \E op \in {"verifyEmail", "forgotPassword", "resetPassword"} :
       Receive("q1", op, {BadJwt}, VerifyArgs(op))
  \/ \E op \in {"updateUser", "deleteUser"} : Receive("q2", op, AdminBearer, VerifyArgs(op))
  \/ \E r \in Reqs : AuthUser(r)
  \/ \E r \in Reqs : AuthDistinct(r)
  \/ \E r \in Reqs : AuthRoles(r)
  \/ \E r \in Reqs : VerifyFind(r)
  \/ \E r \in Reqs : VerifyAbort(r)
  \/ \E r \in Reqs : VerifyUser(r)
  \/ \E r \in Reqs : VerifySave(r)
  \/ \E r \in Reqs : VerifyDelete(r)
  \/ \E r \in Reqs : ForgotUser(r)
  \/ \E r \in Reqs : ForgotToken(r)
  \/ \E r \in Reqs : ResetFind(r)
  \/ \E r \in Reqs : ResetAbort(r)
  \/ \E r \in Reqs : ResetUser(r)
  \/ \E r \in Reqs : ResetSave(r)
  \/ \E r \in Reqs : ResetDelete(r)
  \/ \E r \in Reqs : ResetRevoke(r)
  \/ \E r \in Reqs : UpdateUserFind(r)
  \/ \E r \in Reqs : UpdateUserSave(r)
  \/ \E r \in Reqs : DeleteUserFind(r)
  \/ \E r \in Reqs : DeleteUserGrants(r)
  \/ \E r \in Reqs : DeleteUserTokens(r)
  \/ \E r \in Reqs : DeleteUserDoc(r)
SpecVerify == InitVerify /\ [][NextVerify]_vars

\* Custom data: the administrator and alice, both logged in globally, call
\* the routes that change grants; the administrator is assigned to s1.
CustomRoutes ==
  {"assignUserToService", "updateUserService", "removeUserFromService",
   "updateCustomData"}
CustomArgs(op) ==
  CASE op = "assignUserToService" ->
         [userId : {"u2"}, serviceId : ServiceIds, roles : {{}, {2}}, status : {"active"}]
    [] op = "updateUserService" -> [id : {3}, roles : {{{2}}}, status : {{}}]
    [] op = "removeUserFromService" -> [id : {3}]
    [] op = "updateCustomData" ->
         [userId : {"u1", "u2"}, serviceId : ServiceIds,
          customData : {{}, {{"plan"}}, {{"quota"}}}]
InitCustom == InitWith("active", {"u1"}, <<<<"u1", Null>>, <<"u2", Null>>>>)
NextCustom ==
  \/ \E r \in Reqs, op \in CustomRoutes : Receive(r, op, AnyBearer, CustomArgs(op))
  \/ \E r \in Reqs : AuthUser(r)
  \/ \E r \in Reqs : AuthDistinct(r)
  \/ \E r \in Reqs : AuthRoles(r)
  \/ \E r \in Reqs : AssignUser(r)
  \/ \E r \in Reqs : AssignService(r)
  \/ \E r \in Reqs : AssignExisting(r)
  \/ \E r \in Reqs : AssignRoles(r)
  \/ \E r \in Reqs : AssignSave(r)
  \/ \E r \in Reqs : AssignPopulate(r)
  \/ \E r \in Reqs : UpdateGrantFind(r)
  \/ \E r \in Reqs : UpdateGrantRoles(r)
  \/ \E r \in Reqs : UpdateGrantSave(r)
  \/ \E r \in Reqs : RemoveGrantFind(r)
  \/ \E r \in Reqs : RemoveGrantDelete(r)
  \/ \E r \in Reqs : UpdateCustomDataFind(r)
  \/ \E r \in Reqs : UpdateCustomDataSave(r)
SpecCustom == InitCustom /\ [][NextCustom]_vars

\* The tenant of a refresh token: alice exchanges the refresh token of her
\* session on s1 while the administrator deactivates s1, or removes alice's
\* grant and deletes s1.
TenantAdminRoutes == {"updateService", "removeUserFromService", "deleteService"}
TenantArgs(op) ==
  CASE op = "refreshToken" -> [refreshToken : Outstanding]
    [] op = "updateService" -> [id : ServiceIds, active : BOOLEAN]
    [] op = "removeUserFromService" -> [id : {4}]
    [] op = "deleteService" -> [id : ServiceIds]
NextTenant ==
  \/ Receive("q1", "refreshToken", AnyBearer, TenantArgs("refreshToken"))
  \/ \E op \in TenantAdminRoutes : Receive("q2", op, AdminBearer, TenantArgs(op))
  \/ \E r \in Reqs : AuthUser(r)
  \/ \E r \in Reqs : AuthDistinct(r)
  \/ \E r \in Reqs : AuthRoles(r)
  \/ \E r \in Reqs : RefreshFind(r)
  \/ \E r \in Reqs : RefreshUser(r)
  \/ \E r \in Reqs : RefreshService(r)
  \/ \E r \in Reqs : UpdateServiceFind(r)
  \/ \E r \in Reqs : UpdateServiceSave(r)
  \/ \E r \in Reqs : RemoveGrantFind(r)
  \/ \E r \in Reqs : RemoveGrantDelete(r)
  \/ \E r \in Reqs : DeleteServiceFind(r)
  \/ \E r \in Reqs : DeleteServiceUsers(r)
  \/ \E r \in Reqs : DeleteServiceRoles(r)
  \/ \E r \in Reqs : DeleteServiceDoc(r)
SpecTenant == InitRefresh /\ [][NextTenant]_vars

\* Logout: the administrator and alice, both logged in globally, log out
\* from both slots with any stored refresh token, or none, in the body, while
\* alice logs in again.
LogoutArgs(op) ==
  CASE op = "logoutUser" -> [refreshToken : Optional(Outstanding)]
    [] op = "loginUser" ->
         [username : {"alice"}, password : {"Passw0rd2"}, serviceId : {Null}]
NextLogout ==
  \/ \E r \in Reqs : Receive(r, "logoutUser", AnyBearer, LogoutArgs("logoutUser"))
  \/ Receive("q2", "loginUser", AnyBearer, LogoutArgs("loginUser"))
  \/ \E r \in Reqs : AuthUser(r)
  \/ \E r \in Reqs : AuthDistinct(r)
  \/ \E r \in Reqs : AuthRoles(r)
  \/ \E r \in Reqs : LogoutUser(r)
  \/ \E r \in Reqs : LoginUser(r)
  \/ \E r \in Reqs : LoginSave(r)
  \/ \E r \in Reqs : LoginToken(r)
SpecLogout == InitAudit /\ [][NextLogout]_vars

\* Suspended grants: alice's grant for s1 lists the global admin role; the
\* administrator suspends and reactivates that grant, one request after the
\* other, and clients read with tokens of both scopes.
SuspendArgs(op) ==
  CASE op = "updateUserService" -> [id : {4}, roles : {{}}, status : Optional(GrantStatuses)]
    [] OTHER -> Args(op)
InitSuspend ==
  InitDb("active", {"u2"}, <<<<"u1", Null>>, <<"u2", Null>>, <<"u2", "s1">>>>, {}, {1})
NextSuspend ==
  \/ Receive("q1", "updateUserService", AdminBearer, SuspendArgs("updateUserService"))
  \/ \E r \in Reqs, op \in ProbeRoutes : Receive(r, op, AnyBearer, SuspendArgs(op))
  \/ \E r \in Reqs : AuthUser(r)
  \/ \E r \in Reqs : AuthService(r)
  \/ \E r \in Reqs : AuthGrant(r)
  \/ \E r \in Reqs : AuthPopulate(r)
  \/ \E r \in Reqs : AuthDistinct(r)
  \/ \E r \in Reqs : AuthRoles(r)
  \/ \E r \in Reqs : ReadOnly(r)
  \/ \E r \in Reqs : UpdateGrantFind(r)
  \/ \E r \in Reqs : UpdateGrantSave(r)
SpecSuspend == InitSuspend /\ [][NextSuspend]_vars

\* -------------------------------------------------------------------- claims
\* request r takes a step of its route
Steps(r) == req[r].pc \notin {"idle", "done"} /\ req'[r] # req[r]
\* request r is answered with that status code in this step
Answers(r, code) ==
  req[r].pc \notin {"idle", "done"} /\ req'[r].pc = "done" /\ req'[r].status = code
\* request r has been answered with that status code
Answer(r, code) == req[r].pc = "done" /\ req[r].status = code

\* the routes that consume a token, and the value a request presents to them
Consumers == {"refreshToken", "verifyEmail", "resetPassword"}
presented(q) == IF q.op = "refreshToken" THEN q.arg.refreshToken ELSE q.arg.token
\* the refresh tokens of a user in a Token collection
refreshTokensOf(coll, userId) == {t \in coll : t.userId = userId /\ t.type = "refresh"}

\* C1: of the overlapping requests that consumed one token value on one of
\* the consuming routes (refresh exchange, verifyEmail, resetPassword), at
\* most one is answered with success.
OneConsumerSucceeds ==
  \A r1, r2 \in Reqs :
    (r1 # r2 /\ req[r1].op \in Consumers /\ req[r2].op = req[r1].op
      /\ Answer(r1, 200) /\ Answer(r2, 200))
    => presented(req[r1]) # presented(req[r2])

Resolved(r) == req[r].pc \in {"auth_roles", "auth_populate"} /\ req'[r].hasRoles
\* hasPermission called next(): the handler of the route runs
Passes(r) == req'[r].pc = Handler(req[r].op)
\* the user holds the global admin role in one of its grants
HoldsGlobalAdmin(userId) ==
  \E g \in grants, ro \in roles :
    g.userId = userId /\ ro._id \in g.roles /\ ro.isGlobal /\ ro.name = "admin"

UnionDecidesWithoutGlobalAdmin ==
  [][\A r \in Reqs :
       (Resolved(r)
         /\ ~\E ro \in req'[r].userRoles : ro.name = "admin" /\ ro.isGlobal)
       => (Passes(r) <=>
             Permission(req[r].op) \in UNION {ro.permissions : ro \in req'[r].userRoles})]_vars

\* C5: authenticate with a tenant token, having found the user and the
\* service active, answers 403 without attaching roles and without running
\* the handler when there is no grant for (user, service), and when the
\* grant it found is suspended.
GrantRequired ==
  [][\A r \in Reqs :
       /\ (req[r].pc = "auth_grant" /\ Steps(r))
          => LET userService == {g \in grants : g.userId = req[r].user
                                                /\ g.serviceId = req[r].service}
             IN /\ userService = {}
                   => Answers(r, 403) /\ ~req'[r].hasRoles /\ req'[r].userRoles = {}
                /\ userService # {} => req'[r].grantDoc = userService
       /\ (req[r].pc = "auth_populate" /\ Steps(r)
            /\ \E g \in req[r].grantDoc : g.status = "suspended")
          => Answers(r, 403) /\ ~req'[r].hasRoles /\ req'[r].userRoles = {}]_vars

\* C5 witness: a request with a tenant token, whose user and service were
\* found active, answered 403 without roles while the user has no grant for
\* the service
RejectedWithoutGrant ==
  \E r \in Reqs :
    /\ Answer(r, 403) /\ req[r].service # Null /\ ~req[r].hasRoles
    /\ ~\E g \in grants : g.userId = req[r].user /\ g.serviceId = req[r].service

\* C6: the step of authenticate that looks the user up attaches it only if
\* it exists with status active at that moment; with a verified token it
\* answers 401 when the user is missing and 403 when it is not active.
ActivePrincipalOnly ==
  [][\A r \in Reqs :
       (req[r].pc = "auth_user" /\ Steps(r))
       => LET user == findById(users, req[r].bearer.id)
          IN /\ req'[r].user # Null
                => /\ req'[r].user = req[r].bearer.id
                   /\ \E u \in user : u.status = "active"
             /\ (jwtVerify(req[r].bearer) /\ user = {})
                => Answers(r, 401) /\ req'[r].user = Null
             /\ (jwtVerify(req[r].bearer) /\ \E u \in user : u.status # "active")
                => Answers(r, 403) /\ req'[r].user = Null]_vars

\* C6 witness: a request with an unexpired token of a user whose status is
\* suspended, answered 403 with no user attached
SuspendedRejected ==
  \E r \in Reqs :
    /\ Answer(r, 403) /\ req[r].user = Null /\ jwtVerify(req[r].bearer)
    /\ \E u \in users : u._id = req[r].bearer.id /\ u.status = "suspended"

\* the role ids of the grants of a user, global or of a tenant
grantRoleIds(userId) == UNION {g.roles : g \in {x \in grants : x.userId = userId}}

\* C7: with a token without tenant, authenticate reads the role ids of all
\* grants of the user, and (those grants not having changed in between) the
\* role set it attaches is exactly the roles with isGlobal = true that
\* appear in a grant of the user.
GlobalScopeRoles ==
  [][\A r \in Reqs :
       /\ (req[r].pc = "auth_distinct" /\ Steps(r))
          => req'[r].ids = grantRoleIds(req[r].user)
       /\ (req[r].pc = "auth_roles" /\ Steps(r) /\ req[r].ids = grantRoleIds(req[r].user))
          => /\ req'[r].hasRoles
             /\ req'[r].userRoles =
                  {ro \in roles : /\ ro.isGlobal
                                  /\ \E g \in grants : g.userId = req[r].user
                                                       /\ ro._id \in g.roles}]_vars

\* C7 witness: alice's request with a token without tenant carries the
\* global admin role, which only her grant for s1 holds, and not the tenant
\* role of that grant
GlobalRoleThroughTenantGrant ==
  \E r \in Reqs :
    /\ req[r].hasRoles /\ req[r].bearer.serviceId = Null /\ req[r].user = "u2"
    /\ req[r].userRoles = {AdminRole, UserRole}
    /\ \E g \in grants, ro \in roles :
         /\ g.userId = "u2" /\ g.serviceId = "s1" /\ 1 \in g.roles
         /\ ro._id \in g.roles /\ ~ro.isGlobal

\* C8: a refresh exchange answers with an access token for a tenant only if,
\* at that moment, the grant of the user for that tenant exists and is
\* active.
ExchangeChecksGrant ==
  [][\A r \in Reqs :
       (req[r].op = "refreshToken" /\ Answers(r, 200) /\ req'[r].service # Null)
       => \E g \in grants : /\ g.userId = req'[r].user
                            /\ g.serviceId = req'[r].service
                            /\ g.status = "active"]_vars

\* C9: the step in which changePassword or resetPassword answers 200 leaves
\* no refresh token of that user that was stored when the request arrived,
\* and no step stores a token under a value that has been issued before.
PasswordChangeRevokes ==
  [][/\ \A r \in Reqs :
          (req[r].op \in {"changePassword", "resetPassword"} /\ Answers(r, 200))
          => \A u \in req[r].userDoc :
               \A t \in refreshTokensOf(tokens', u._id) : t.token \notin req[r].pre
     /\ \A t \in tokens' \ tokens : t.token \notin IssuedValues]_vars

\* C9 witness: alice's changePassword answered 200, two refresh tokens
\* having been stored when it arrived
PasswordChangedWithSessions ==
  \E r \in Reqs :
    /\ req[r].op = "changePassword" /\ Answer(r, 200) /\ req[r].user = "u2"
    /\ Cardinality(req[r].pre) >= 2

\* C10 as stated: the step in which logoutUser answers leaves no refresh
\* token of the authenticated user.
LogoutRevokesAll ==
  [][\A r \in Reqs :
       (req[r].op = "logoutUser" /\ Answers(r, 200))
       => refreshTokensOf(tokens', req[r].user) = {}]_vars

\* C10 amended: logoutUser deletes the refresh token whose value the body
\* carries, and no other; without a refreshToken in the body it deletes
\* nothing.
LogoutDeletesPresented ==
  [][\A r \in Reqs :
       (req[r].op = "logoutUser" /\ req[r].pc = "lo_delete" /\ Steps(r))
       => /\ Answers(r, 200)
          /\ tokens' = {t \in tokens : ~(t.type = "refresh"
                                         /\ t.token \in req[r].arg.refreshToken)}]_vars

\* C10 witness: a logout that presented a stored refresh token, answered
\* 200, with another refresh token of the same user still stored
LoggedOutSessionRemains ==
  \E r \in Reqs :
    /\ req[r].op = "logoutUser" /\ Answer(r, 200)
    /\ \E v \in req[r].arg.refreshToken : v \in req[r].pre
    /\ \E t \in refreshTokensOf(tokens, req[r].user) : t.token \in req[r].pre

inUse(arg) ==
  \E u \in users : u.username = arg.username \/ u.email = lowercase(arg.email)

\* C16: no two users share a username and no two share an email, also while
\* registerUser requests overlap; a registerUser whose username or email is
\* in use when it looks the user up or when it inserts gets no further than
\* the insert: it is answered 400 (by the lookup or, at the latest, by the
\* unique indexes) and leaves the users, the grants and the tokens as they
\* were.
UniqueUsernameAndEmail ==
  [][/\ \A u1, u2 \in users' :
          (u1.username = u2.username \/ u1.email = u2.email) => u1 = u2
     /\ \A r \in Reqs :
          (req[r].pc \in {"rg_find", "rg_save"} /\ Steps(r) /\ inUse(req[r].arg))
          => /\ Answers(r, 400) \/ (req[r].pc = "rg_find" /\ req'[r].pc = "rg_save")
             /\ UNCHANGED <<users, grants, tokens>>]_vars

\* C16 witness: two overlapping registerUser requests for the username bob:
\* one answered 201, the other 400, and one user bob stored
OneOfTwoRegistered ==
  /\ req["q1"].op = "registerUser" /\ req["q2"].op = "registerUser"
  /\ req["q1"].arg.username = "bob" /\ req["q2"].arg.username = "bob"
  /\ \E r1, r2 \in Reqs : Answer(r1, 201) /\ Answer(r2, 400)
  /\ Cardinality({u \in users : u.username = "bob"}) = 1

\* a grant for the user and the service of the body is stored
granted(arg) ==
  \E g \in grants : g.userId = arg.userId /\ g.serviceId = arg.serviceId

\* C12: at most one grant is stored per pair of user and service, the global
\* grants (no service) included, also while assignUserToService and
\* registerUser requests overlap; a step of assignUserToService taken at the
\* lookup or at the insert while a grant for its pair is stored answers 400
\* and leaves the grants as they were, and registerUser inserts the global
\* grant of a user that has none.
OneGrantPerPair ==
  [][/\ \A g1, g2 \in grants' :
          (g1.userId = g2.userId /\ g1.serviceId = g2.serviceId) => g1 = g2
     /\ \A r \in Reqs :
          /\ (req[r].pc \in {"as_existing", "as_save"} /\ Steps(r) /\ granted(req[r].arg))
             => Answers(r, 400) /\ grants' = grants
          /\ (req[r].pc = "rg_grant" /\ Steps(r))
             => \A u \in req[r].userDoc :
                  ~\E g \in grants : g.userId = u._id /\ g.serviceId = Null]_vars

\* C12 witness: two overlapping assignments of alice to s1: one answered 201,
\* the other 400, and one grant for the pair stored
OneOfTwoAssigned ==
  /\ \A r \in Reqs : /\ req[r].op = "assignUserToService"
                     /\ req[r].arg.userId = "u2" /\ req[r].arg.serviceId = "s1"
  /\ \E r1, r2 \in Reqs : Answer(r1, 201) /\ Answer(r2, 400)
  /\ Cardinality({g \in grants : g.userId = "u2" /\ g.serviceId = "s1"}) = 1

\* the role ids of a list that name a stored role out of the scope of a
\* service: neither global nor of that service
outOfScope(ids, serviceId) ==
  {ro \in roles : ro._id \in ids /\ ~ro.isGlobal /\ ro.serviceId # serviceId}

\* C13: every stored role that a grant lists is global or has the service of
\* the grant; the role check of assignUserToService and the one of
\* updateUserService answer 400 and leave the grants as they were when the
\* list of the body contains a role that is neither.
GrantRolesInScope ==
  [][/\ \A g \in grants' : outOfScope(g.roles, g.serviceId) = {}
     /\ \A r \in Reqs :
          /\ (req[r].pc = "as_roles" /\ Steps(r)
               /\ outOfScope(req[r].arg.roles, req[r].arg.serviceId) # {})
             => Answers(r, 400) /\ grants' = grants
          /\ (req[r].pc = "us_roles" /\ Steps(r)
               /\ \E g \in req[r].grantDoc, wanted \in req[r].arg.roles :
                    outOfScope(wanted, g.serviceId) # {})
             => Answers(r, 400) /\ grants' = grants]_vars

\* C13 witness: an assignment of a stored user to s1 that lists the role
\* without service, answered 400 with no grant for its pair stored
RoleOutOfScopeRejected ==
  \E r \in Reqs :
    /\ req[r].op = "assignUserToService" /\ Answer(r, 400)
    /\ 4 \in req[r].arg.roles /\ ~granted(req[r].arg)
    /\ findById(users, req[r].arg.userId) # {}

\* C14: deleteRole removes no role that a grant lists, and a deleteRole that
\* finds its role listed by no grant is not refused for that role.
ReferencedRoleStays ==
  [][\A r \in Reqs :
       /\ (req[r].op = "deleteRole" /\ Steps(r))
            => \A ro \in roles \ roles' : grantsWithRole(ro._id) = {}
       /\ (req[r].pc = "dr_find" /\ Steps(r)
             /\ findById(roles, req[r].arg.id) # {}
             /\ grantsWithRole(req[r].arg.id) = {})
            => ~Answers(r, 403)]_vars

\* C14: the first half alone
ListedRoleNotRemoved ==
  [][\A r \in Reqs :
       (req[r].op = "deleteRole" /\ Steps(r))
         => \A ro \in roles \ roles' : grantsWithRole(ro._id) = {}]_vars

\* C14: a deleteRole whose count finds a grant that lists the role answers
\* 400 and leaves the role; one whose count finds none goes on to delete it
DeleteRoleByCount ==
  [][\A r \in Reqs :
       /\ (req[r].pc = "dr_count" /\ Steps(r)
             /\ \E ro \in req[r].roleDoc : grantsWithRole(ro._id) # {})
            => Answers(r, 400) /\ roles' = roles
       /\ (req[r].pc = "dr_count" /\ Steps(r)
             /\ \E ro \in req[r].roleDoc : grantsWithRole(ro._id) = {})
            => req'[r].pc = "dr_delete"
       /\ (req[r].pc = "dr_delete" /\ Steps(r))
            => Answers(r, 200) /\ roles' = deleteDoc(roles, req[r].roleDoc)]_vars

\* a role refused while listed and deleted after the grant stopped listing it
RefusedThenDeleted ==
  /\ Answer("q1", 400) /\ req["q1"].op = "deleteRole" /\ req["q1"].arg.id = 3
  /\ Answer("q2", 200) /\ req["q2"].op = "deleteRole" /\ req["q2"].arg.id = 3
  /\ findById(roles, 3) = {}

\* C15: the global admin role and the global user role stay stored, global
\* and without service, and the global admin role keeps its name and its
\* permission set, whatever createRole, updateRole and deleteRole do.
ProtectedRolesKept ==
  /\ [](AdminRole \in roles)
  /\ [](\E ro \in roles : ro._id = UserRole._id /\ ro.isGlobal /\ ro.serviceId = Null)
  /\ [][\A r \in Reqs :
          (req[r].op = "updateRole" /\ req[r].pc = "ur_find" /\ Steps(r)
             /\ findById(roles, req[r].arg.id) # {})
            => Answers(r, 400)]_vars

\* C15 witness: a deleteRole on the global user role, which no grant lists
\* any more, answered 403, and an updateRole on the global admin role that
\* names neither isGlobal nor serviceId, answered 400
ProtectedRoleRefused ==
  /\ req["q1"].op = "deleteRole" /\ req["q1"].arg.id = 2 /\ Answer("q1", 403)
  /\ grantsWithRole(2) = {}
  /\ req["q2"].op = "updateRole" /\ req["q2"].arg.id = 1 /\ Answer("q2", 400)
  /\ req["q2"].arg.isGlobal = {} /\ req["q2"].arg.serviceId = {}

credentialKeys ==
  [params |-> {"token"},
   body |-> {"password", "confirmPassword", "currentPassword", "newPassword",
             "refreshToken", "apiSecret"},
   response |-> {"token", "refreshToken", "resetToken", "apiSecret",
                 "service.apiSecret", "user.password"}]

\* C18: no stored audit event holds a password, an access token, a refresh
\* token, a verification or password-reset token or an API secret in its
\* request or response details.
NoCredentialStored ==
  \A i \in 1..Len(audit) :
    /\ audit[i].params \cap credentialKeys.params = {}
    /\ audit[i].body \cap credentialKeys.body = {}
    /\ audit[i].response \cap credentialKeys.response = {}

\* C18: the events that hold a credential: the refresh token in the body of
\* a logout, the reset token in the response of forgotPassword, the API
\* secret in the response of regenerateCredentials
RefreshTokenLogged ==
  \E i \in 1..Len(audit) :
    audit[i].action = "user:logout" /\ "refreshToken" \in audit[i].body
ResetTokenLogged ==
  \E i \in 1..Len(audit) :
    audit[i].action = "user:forgot_password" /\ "resetToken" \in audit[i].response
ApiSecretLogged ==
  \E i \in 1..Len(audit) :
    /\ audit[i].action = "service:regenerate_credentials"
    /\ "service.apiSecret" \in audit[i].response

AuditAppendOnly ==
  [][/\ Len(audit') >= Len(audit)
     /\ SubSeq(audit', 1, Len(audit)) = audit]_vars

\* C20 witness: the event of alice's logout is the first of the audit trail
\* after deleteUser deleted alice and deleteService deleted the service
EventOutlivesUser ==
  /\ Len(audit) = 3
  /\ audit[1].action = "user:logout" /\ audit[1].userId = "u2"
  /\ \E i \in 2..3 : audit[i].action = "user:delete"
  /\ \E i \in 2..3 : audit[i].action = "service:delete"
  /\ findById(users, "u2") = {} /\ services = {}

\* the pairs of API key and secret that authenticateService lets pass
authenticating(coll) ==
  {<<x.apiKey, x.apiSecret>> : x \in {y \in coll : y.active}}

\* C21: the step of regenerateCredentials that saves a service replaces its
\* API key and its secret at once: afterwards the previous pair, the
\* previous key with the new secret and the new key with the previous secret
\* do not authenticate, and authenticateService lets a request pass only
\* with the pair stored for an active service.
RegenerationReplacesPair ==
  [][\A r \in Reqs :
       /\ (req[r].pc = "rc_save" /\ Steps(r) /\ services' # services)
            => \A old \in findById(services, req[r].arg.id) :
                 \A new \in findById(services', req[r].arg.id) :
                   /\ new.apiKey # old.apiKey /\ new.apiSecret # old.apiSecret
                   /\ ~\E x \in services' :
                        \/ x.apiKey = old.apiKey
                        \/ x.apiSecret = old.apiSecret
       /\ (req[r].pc = "svc_find" /\ Steps(r))
            => (Answers(r, 200)
                  <=> <<req[r].arg.apiKey, req[r].arg.apiSecret>> \in authenticating(services))]_vars

\* C21 witness: after a regeneration answered 200 the previous pair is
\* answered 401 and the stored pair is the new one
OldPairRejected ==
  /\ req["q2"].op = "regenerateCredentials" /\ Answer("q2", 200)
  /\ req["q1"].op = "authenticateService" /\ Answer("q1", 401)
  /\ req["q1"].arg = [apiKey |-> 1, apiSecret |-> 1]
  /\ authenticating(services) = {<<2, 2>>}

\* C22: a step of a route without authentication changes the status of a
\* stored user only in verifyEmail, and only from pending to active.
StatusOnlyPendingToActive ==
  [][\A r \in Reqs :
       (Steps(r) /\ req[r].op \notin JwtRoutes)
         => \A u \in users : \A v \in users' :
              (u._id = v._id /\ u.status # v.status)
                => /\ req[r].op = "verifyEmail"
                   /\ u.status = "pending" /\ v.status = "active"]_vars

\* C22: a suspended user made active by verifyEmail
SuspendedMadeActive ==
  /\ req["q1"].op = "verifyEmail" /\ Answer("q1", 200)
  /\ req["q2"].op = "updateUser" /\ Answer("q2", 200)
  /\ req["q2"].arg.status = {"suspended"}
  /\ \E u \in users : u._id = "u2" /\ u.status = "active"

\* C23: a registerUser call that is answered with an error leaves no user
\* of its own stored.
RegisterErrorWritesNothing ==
  [][\A r \in Reqs :
       (req[r].op = "registerUser" /\ Steps(r)
          /\ req'[r].pc = "done" /\ req'[r].status >= 400)
         => \A u \in req[r].userDoc : findById(users', u._id) = {}]_vars

\* C23: a registration answered 500 and its user stored with neither a
\* grant nor a verification token, no request being in flight
UserWithoutGrantOrToken ==
  /\ \A r \in Reqs : Free(r)
  /\ \E r \in Reqs : req[r].op = "registerUser" /\ Answer(r, 500)
  /\ \E u \in users :
       /\ u._id = "u3"
       /\ ~\E g \in grants : g.userId = u._id
       /\ ~\E t \in tokens : t.userId = u._id

\* C24: a request changes the grants only when it runs one of
\* assignUserToService, updateUserService, removeUserFromService and
\* updateCustomData for a caller whose roles hold admin or user:write
GrantChangeNeedsUserWrite ==
  [][\A r \in Reqs :
       (Steps(r) /\ grants' # grants)
         => /\ req[r].op \in CustomRoutes
            /\ req[r].hasRoles
            /\ permitted(req[r].userRoles, "user:write")]_vars

\* alice, who holds the role user alone, has changed the custom data of the
\* administrator's grant on s1
OrdinaryUserChangedGrant ==
  \E r \in Reqs :
    /\ Answer(r, 200)
    /\ req[r].op = "updateCustomData"
    /\ req[r].user = "u2"
    /\ req[r].arg.userId = "u1"
    /\ ~permitted(req[r].userRoles, "user:write")
    /\ \E g \in grants : g.userId = "u1" /\ g.serviceId = "s1" /\ g.customData # {}

\* C25: an updateRole request whose body has no isGlobal and no serviceId,
\* on a stored role other than the global admin role and with a name no
\* other role of the same service has, is not refused by the handler
UpdateRoleAccepted ==
  [][\A r \in Reqs :
       LET arg == req[r].arg
           found == findById(roles, arg.id)
       IN (/\ req[r].op = "updateRole"
           /\ req[r].pc = "ur_find"
           /\ Steps(r)
           /\ arg.isGlobal = {}
           /\ arg.serviceId = {}
           /\ found # {}
           /\ \A ro \in found :
                 /\ ~(ro.name = "admin" /\ ro.isGlobal)
                 /\ \A other \in roles :
                      other._id # ro._id
                        => ~(other.name = arg.name /\ other.serviceId = ro.serviceId))
            => req'[r].pc # "done"]_vars

\* the administrator's request to rename the role user to editor, with no
\* isGlobal and no serviceId in the body, has been answered 400 and the role
\* is as it was
RoleUpdateRefused ==
  \E r \in Reqs :
    /\ Answer(r, 400)
    /\ req[r].op = "updateRole"
    /\ req[r].arg.id = 2
    /\ req[r].arg.name = "editor"
    /\ req[r].arg.isGlobal = {}
    /\ req[r].arg.serviceId = {}
    /\ permitted(req[r].userRoles, "role:write")
    /\ UserRole \in roles
    /\ \A ro \in roles : ro.name # "editor"

\* C26: the access token a refresh exchange signs carries the service of
\* the refresh token's metadata
ExchangeKeepsTenant ==
  [][\A r \in Reqs :
       (req[r].op = "refreshToken" /\ Steps(r) /\ Answers(r, 200))
         => \A t \in req[r].tokenDoc :
              /\ req'[r].service = t.serviceId
              /\ generateToken(t.userId, t.serviceId) \in jwts']_vars

\* alice's refresh token of her session on s1, still stored, has been
\* exchanged for a global access token after s1 was deactivated or deleted
TenantTokenMadeGlobal ==
  \E r \in Reqs :
    /\ Answer(r, 200)
    /\ req[r].op = "refreshToken"
    /\ req[r].user = "u2"
    /\ req[r].service = Null
    /\ \E t \in tokens : t.token = req[r].arg.refreshToken /\ t.serviceId = "s1"
    /\ \A x \in services : ~x.active
    /\ \E j \in jwts : j.id = "u2" /\ j.serviceId = Null

\* C27: the step of logoutUser leaves every refresh token of a user other
\* than the caller in the store
LogoutLeavesOthers ==
  [][\A r \in Reqs :
       (req[r].op = "logoutUser" /\ req[r].pc = "lo_delete" /\ Steps(r))
         => \A t \in tokens :
              (t.type = "refresh" /\ t.userId # req[r].user) => t \in tokens']_vars

\* alice has logged out with the value of the administrator's refresh
\* token, and the administrator has no refresh token left
OtherSessionLoggedOut ==
  \E r \in Reqs :
    /\ req[r].op = "logoutUser"
    /\ Answer(r, 200)
    /\ req[r].user = "u2"
    /\ req[r].arg.refreshToken = {2}
    /\ newToken(2, "u1", "refresh", Null) \notin tokens
    /\ refreshTokensOf(tokens, "u1") = {}

\* the role ids listed by the active grants of a user
activeGrantRoleIds(userId) ==
  UNION {g.roles : g \in {x \in grants : x.userId = userId /\ x.status = "active"}}

\* C28: authenticate attaches the roles of a grant for the tenant only when
\* the grant it read is active, and with a token without tenant it reads
\* the role ids of the active grants of the user only
SuspendedGrantGivesNoRoles ==
  [][\A r \in Reqs :
       /\ (req[r].pc = "auth_populate" /\ Steps(r) /\ req'[r].hasRoles)
            => \A g \in req[r].grantDoc : g.status = "active"
       /\ (req[r].pc = "auth_distinct" /\ Steps(r))
            => req'[r].ids \subseteq activeGrantRoleIds(req[r].user)]_vars

\* alice's request for the audit log, which arrived with a token without
\* tenant after her grant for s1 was suspended, has passed the gate with the
\* admin role that only the suspended grant lists
SuspendedGrantGaveAdmin ==
  /\ Answer("q1", 200)
  /\ req["q1"].op = "getAuditLogs"
  /\ req["q1"].user = "u2"
  /\ req["q1"].bearer.serviceId = Null
  /\ AdminRole \in req["q1"].userRoles
  /\ \A g \in grants : (g.userId = "u2" /\ 1 \in g.roles) => g.status = "suspended"

\* C29: every role id that a grant lists is the _id of a stored role
GrantRolesExist ==
  \A g \in grants : \A id \in g.roles : findById(roles, id) # {}

\* a deleteRole and an updateUserService have both been answered 200, and
\* the grant lists the role that was deleted
DanglingRoleId ==
  /\ Answer("q1", 200) /\ req["q1"].op = "deleteRole"
  /\ Answer("q2", 200) /\ req["q2"].op = "updateUserService"
  /\ \E g \in grants :
       /\ g._id = req["q2"].arg.id
       /\ req["q1"].arg.id \in g.roles
       /\ findById(roles, req["q1"].arg.id) = {}

\* C30: once a changePassword and a loginUser of alice that presented
\* another password than the new one have both been answered 200, no
\* refresh token issued by that login is stored
NoSessionOfOldPassword ==
  \A c \in Reqs, l \in Reqs :
    (/\ Answer(c, 200) /\ req[c].op = "changePassword" /\ req[c].user = "u2"
     /\ Answer(l, 200) /\ req[l].op = "loginUser" /\ req[l].arg.username = "alice"
     /\ req[l].arg.password # req[c].arg.newPassword)
      => \A t \in refreshTokensOf(tokens, "u2") : t.token \in req[l].pre

\* alice's password is the new one, her changePassword and a login with the
\* old password have both been answered 200, and a refresh token issued after
\* that login arrived is stored
OldPasswordSessionSurvives ==
  /\ Answer("q1", 200) /\ req["q1"].op = "changePassword" /\ req["q1"].user = "u2"
  /\ Answer("q2", 200) /\ req["q2"].op = "loginUser"
  /\ req["q2"].arg.password = "Passw0rd2"
  /\ \A u \in findById(users, "u2") : u.password = Hash("Passw0rd1")
  /\ \E t \in refreshTokensOf(tokens, "u2") : t.token \notin req["q2"].pre

====
